---- MODULE Spec2Model ----
(***************************************************************************)
(* Model of the Ralph task state store (the RalphStateDO durable object):  *)
(* the persisted PRD ledger, the progress log, the HTTP handlers of the    *)
(* object and its alarm handler, which dispatches execution requests.      *)
(***************************************************************************)
EXTENDS Integers, Sequences, FiniteSets, TLC

\* ----------------------------------------------------------------------
\* Bounds of the model
\* ----------------------------------------------------------------------
\* the ledger version up to which Spec lets /enqueue, /complete and /fail run
MaxVersion == 4
\* the ledger version up to which SpecDispatch lets them run
MaxDispatchVersion == 6
\* largest number of entries appended to the progress log
MaxProgress == 1

\* ----------------------------------------------------------------------
\* Program constants and input sets
\* ----------------------------------------------------------------------
\* the retry limit of the eligibility test `task.attempts < 3`
MaxAttempts == 3

\* a JS `undefined` optional string field
None == "undefined"
\* a JS `undefined` optional timestamp field
NoTime == -1
\* the taskId of a /get-next-task answer that found nothing
Null == "null"

TaskIds == {"T1", "T2"}

\* the Task records the poller hands to /enqueue
Tasks ==
  { [id |-> "T1", description |-> "d1", branch |-> "task/t1"],
    [id |-> "T2", description |-> "d2", branch |-> "task/t2"] }

\* the ExecutionResult fields /complete reads
Results ==
  { [success |-> TRUE, prUrl |-> "pr", learnings |-> <<"x", "y">>],
    [success |-> TRUE, prUrl |-> "pr", learnings |-> <<>>],
    [success |-> TRUE, prUrl |-> "pr"],
    [success |-> FALSE, prUrl |-> None, learnings |-> <<"x", "y">>],
    [success |-> FALSE, prUrl |-> None, learnings |-> <<>>],
    [success |-> FALSE, prUrl |-> None] }

\* data.result.learnings && data.result.learnings.length > 0
HasLearnings(result) ==
  "learnings" \in DOMAIN result /\ Len(result.learnings) > 0

Errors == {"e1", "e2"}

\* the values new Date() may return to a handler
Times == {0, 1}

\* outcomes of the fetch of /execute made by the alarm handler
FetchOutcomes == {"ok", "rejected", "throws"}

VARIABLES
  storage,      \* the durable storage: keys 'prd' and 'progress' (<<>> = absent)
  alarmSet,     \* TRUE while an alarm set by storage.setAlarm is pending
  alarmRun,     \* the running alarm() invocation: its position and its task
  response,     \* the Response of the handler that ran last
  sent,         \* per task: ExecutionRequests issued since its last enqueue
  outstanding,  \* per task: a request was issued and no complete/fail processed since
  passed,       \* per task: /complete set passes=true since its last enqueue
  exhausted,    \* per task: it had passes=false, attempts>=3 since its last enqueue
  executions,   \* ExecutionAgent.executions: execution id -> ExecutionState
  runs,         \* the execute() calls: execution id -> position and locals
  reply,        \* the response of the execution server's handler that ran last
  repo,         \* the clone at repoPath: worktree directories and local branches
  checker,      \* a QualityChecker.runAll() call: its position, results, commands
  retry,        \* a retryWithBackoff() call: its position and locals
  callback      \* the coordinator's handleExecutionCallback call: position, locals

\* the state of the Task State Store and of the Execution Agent process
storeVars == <<storage, alarmSet, alarmRun, response, sent, outstanding, passed, exhausted>>
agentVars == <<executions, runs, reply, repo>>
\* the calls checked on their own
toolVars == <<checker, retry, callback>>

vars == <<storage, alarmSet, alarmRun, response, sent, outstanding, passed, exhausted,
          executions, runs, reply, repo, checker, retry, callback>>

\* ----------------------------------------------------------------------
\* Storage helpers
\* ----------------------------------------------------------------------
\* the PRD created on first use (updatedAt, which nothing reads, is left out)
InitialPRD ==
  [projectName |-> "rocket", tasks |-> <<>>, keys |-> <<>>, version |-> 1]

\* getPRD(): the stored ledger, or a fresh one (which it also stores)
getPRD(s) == IF s.prd = <<>> THEN InitialPRD ELSE s.prd[1]

\* storage.put('prd', prd)
putPRD(s, prd) == [s EXCEPT !.prd = <<prd>>]

\* getProgress(): the stored log, '' when absent
getProgress(s) == s.progress

\* the entry /enqueue writes for a task
EnqueueEntry(task) ==
  [description |-> task.description, branchName |-> task.branch,
   passes |-> FALSE, attempts |-> 0,
   prUrl |-> None, lastAttemptAt |-> NoTime, error |-> None]

\* prd.tasks[id] = entry: a new key goes last, an existing key keeps its place
\* (keys is the Object.entries order of task ids that are not integer-like)
SetTask(prd, id, entry) ==
  [prd EXCEPT
     !.tasks = [k \in (DOMAIN prd.tasks) \cup {id} |->
                  IF k = id THEN entry ELSE prd.tasks[k]],
     !.keys = IF id \in DOMAIN prd.tasks THEN prd.keys ELSE Append(prd.keys, id)]

\* IsEligible with the limit off by one
IsEligibleOffByOne(task) == ~task.passes /\ task.attempts <= MaxAttempts

\* IsEligible without the attempts limit
IsEligibleNoLimit(task) == ~task.passes

\* the eligibility test shared by /get-next-task and alarm()
IsEligible(task) == ~task.passes /\ task.attempts < MaxAttempts

RECURSIVE FirstEligibleFrom(_, _)
\* the loop over Object.entries(prd.tasks): first eligible key from index i on
FirstEligibleFrom(prd, i) ==
  IF i > Len(prd.keys) THEN Null
  ELSE IF IsEligible(prd.tasks[prd.keys[i]]) THEN prd.keys[i]
  ELSE FirstEligibleFrom(prd, i + 1)

\* FirstEligible taking the last eligible key of the order
FirstEligibleLast(prd) ==
  LET eligible == {i \in 1..Len(prd.keys) : IsEligible(prd.tasks[prd.keys[i]])}
  IN IF eligible = {} THEN Null
     ELSE prd.keys[CHOOSE i \in eligible : \A j \in eligible : j <= i]

FirstEligible(prd) == FirstEligibleFrom(prd, 1)

Idle == [pc |-> "idle", taskId |-> Null]

Init ==
  /\ storage = [prd |-> <<>>, progress |-> <<>>]
  /\ alarmSet = FALSE
  /\ alarmRun = Idle
  /\ response = [op |-> "none", status |-> 0, taskId |-> Null]
  /\ sent = [t \in TaskIds |-> 0]
  /\ outstanding = [t \in TaskIds |-> FALSE]
  /\ passed = [t \in TaskIds |-> FALSE]
  /\ exhausted = [t \in TaskIds |-> FALSE]
  /\ executions = <<>>
  /\ runs = <<>>
  /\ reply = [op |-> "none", code |-> 0]
  /\ repo = [worktrees |-> <<>>, branches |-> <<>>]
  /\ checker = [pc |-> "idle"]
  /\ retry = [pc |-> "idle"]
  /\ callback = [pc |-> "idle", handled |-> 0]

\* the record of the entries seen with passes=false and attempts>=3
TrackExhausted(ex, prd) ==
  [t \in TaskIds |->
     \/ ex[t]
     \/ /\ t \in DOMAIN prd.tasks
        /\ ~prd.tasks[t].passes
        /\ prd.tasks[t].attempts >= MaxAttempts]

\* the runtime delivers a request only while no handler is between storage
\* operations: alarm() is interruptible only while it awaits its fetch
Deliverable == alarmRun.pc \in {"idle", "awaiting"}

\* EnqueuePRD keeping the entry of a task that is already in the ledger
EnqueuePRDKeepExisting(prd, task) ==
  IF task.id \in DOMAIN prd.tasks
  THEN [prd EXCEPT !.version = prd.version + 1]
  ELSE [SetTask(prd, task.id, EnqueueEntry(task)) EXCEPT
          !.version = prd.version + 1]

\* the ledger after /enqueue
EnqueuePRD(prd, task) ==
  [SetTask(prd, task.id, EnqueueEntry(task)) EXCEPT
     !.version = prd.version + 1]

handleEnqueue(task) ==
  /\ Deliverable
  /\ storage' = putPRD(storage, EnqueuePRD(getPRD(storage), task))
  /\ alarmSet' = TRUE
  /\ response' = [op |-> "enqueue", status |-> 200, taskId |-> task.id]
  /\ sent' = [sent EXCEPT ![task.id] = 0]
  /\ passed' = [passed EXCEPT ![task.id] = FALSE]
  /\ exhausted' = [exhausted EXCEPT ![task.id] = FALSE]
  /\ UNCHANGED <<alarmRun, outstanding>>
  /\ UNCHANGED <<agentVars, toolVars>>

\* CompletePRD counting the reported run as an attempt
CompletePRDConsumesAttempt(prd, taskId, result, t) ==
  [prd EXCEPT
     !.tasks[taskId].passes = result.success,
     !.tasks[taskId].prUrl = result.prUrl,
     !.tasks[taskId].lastAttemptAt = t,
     !.tasks[taskId].attempts = prd.tasks[taskId].attempts + 1,
     !.version = prd.version + 1]

\* CompletePRD clearing the attempts of a task that succeeded
CompletePRDResetsAttempts(prd, taskId, result, t) ==
  [prd EXCEPT
     !.tasks[taskId].passes = result.success,
     !.tasks[taskId].prUrl = result.prUrl,
     !.tasks[taskId].lastAttemptAt = t,
     !.tasks[taskId].attempts = IF result.success THEN 0 ELSE @,
     !.version = prd.version + 1]

\* the ledger after /complete
CompletePRD(prd, taskId, result, t) ==
  [prd EXCEPT
     !.tasks[taskId].passes = result.success,
     !.tasks[taskId].prUrl = result.prUrl,
     !.tasks[taskId].lastAttemptAt = t,
     !.version = prd.version + 1]

\* FailPRD without the attempts increment
FailPRDNoIncrement(prd, taskId, error, t) ==
  [prd EXCEPT
     !.tasks[taskId].passes = FALSE,
     !.tasks[taskId].error = error,
     !.tasks[taskId].lastAttemptAt = t,
     !.version = prd.version + 1]

\* the ledger after /fail
FailPRD(prd, taskId, error, t) ==
  [prd EXCEPT
     !.tasks[taskId].passes = FALSE,
     !.tasks[taskId].error = error,
     !.tasks[taskId].lastAttemptAt = t,
     !.tasks[taskId].attempts = prd.tasks[taskId].attempts + 1,
     !.version = prd.version + 1]

\* AlarmIncrement without the break: every eligible entry is incremented
AlarmIncrementNoBreak(prd, taskId) ==
  [prd EXCEPT !.tasks = [k \in DOMAIN prd.tasks |->
     IF IsEligible(prd.tasks[k])
     THEN [prd.tasks[k] EXCEPT !.attempts = @ + 1]
     ELSE prd.tasks[k]]]

\* the ledger alarm() persists for the task it selected
AlarmIncrement(prd, taskId) ==
  [prd EXCEPT !.tasks[taskId].attempts = prd.tasks[taskId].attempts + 1]

RECURSIVE JoinLines(_)
\* Array.prototype.join('\n')
JoinLines(lines) ==
  IF lines = <<>> THEN ""
  ELSE IF Len(lines) = 1 THEN lines[1]
  ELSE lines[1] \o "\n" \o JoinLines(Tail(lines))

\* Bullets losing the last item of the list
BulletsDropLast(items) == [i \in 1..(Len(items) - 1) |-> "- " \o items[i]]

\* the `- item` lines of a list
Bullets(items) == [i \in 1..Len(items) |-> "- " \o items[i]]

\* the text appendProgress adds for an entry
FormatEntry(entry) ==
  JoinLines(
    <<"\n## " \o entry.timestamp \o " - " \o entry.taskId,
      entry.description, "", "### Learnings">>
    \o Bullets(entry.learnings) \o <<"">>
    \o (IF Len(entry.filesChanged) > 0
        THEN <<"### Files Changed">> \o Bullets(entry.filesChanged) \o <<"">>
        ELSE <<>>))

\* appendProgress(entry): storage.put('progress', progress + newEntry); the
\* log is kept as the sequence of the texts appended to it
appendProgress(s, entry) ==
  [s EXCEPT !.progress = Append(getProgress(s), FormatEntry(entry))]

\* new Date().toISOString()
toISOString(t) == ToString(t)

\* StoreInit storing the initial ledger over an existing one
StoreInitOverwrites(s) == putPRD(s, InitialPRD)

\* StoreInit that also empties the progress log
StoreInitDropsProgress(s) ==
  IF s.prd = <<>> THEN [putPRD(s, InitialPRD) EXCEPT !.progress = <<>>]
  ELSE [s EXCEPT !.progress = <<>>]

\* storage after a getPRD() that is followed by no put of its own
StoreInit(s) == IF s.prd = <<>> THEN putPRD(s, InitialPRD) ELSE s

\* storage after /complete for a task of the ledger
CompleteStorage(s, taskId, result, t) ==
  LET prd == CompletePRD(getPRD(s), taskId, result, t)
      s1 == putPRD(s, prd)
  IN IF HasLearnings(result)
     THEN appendProgress(s1,
            [timestamp |-> toISOString(t), taskId |-> taskId,
             description |-> prd.tasks[taskId].description,
             learnings |-> result.learnings, filesChanged |-> <<>>])
     ELSE s1

\* what /complete does to the store
StoreComplete(taskId, result, t) ==
  /\ Deliverable
  /\ IF taskId \notin DOMAIN getPRD(storage).tasks
     THEN /\ storage' = StoreInit(storage)
          /\ response' = [op |-> "complete", status |-> 404, taskId |-> taskId]
          /\ UNCHANGED <<outstanding, passed>>
     ELSE /\ storage' = CompleteStorage(storage, taskId, result, t)
          /\ response' = [op |-> "complete", status |-> 200, taskId |-> taskId]
          /\ outstanding' = [outstanding EXCEPT ![taskId] = FALSE]
          /\ passed' = [passed EXCEPT ![taskId] = @ \/ result.success]
  /\ exhausted' = TrackExhausted(exhausted, getPRD(storage'))
  /\ UNCHANGED <<alarmSet, alarmRun, sent>>

handleComplete(taskId, result, t) ==
  /\ StoreComplete(taskId, result, t)
  /\ UNCHANGED <<agentVars, toolVars>>

\* what /fail does to the store
StoreFail(taskId, error, t) ==
  /\ Deliverable
  /\ IF taskId \notin DOMAIN getPRD(storage).tasks
     THEN /\ storage' = StoreInit(storage)
          /\ response' = [op |-> "fail", status |-> 404, taskId |-> taskId]
          /\ UNCHANGED outstanding
     ELSE /\ storage' = putPRD(storage, FailPRD(getPRD(storage), taskId, error, t))
          /\ response' = [op |-> "fail", status |-> 200, taskId |-> taskId]
          /\ outstanding' = [outstanding EXCEPT ![taskId] = FALSE]
  /\ exhausted' = TrackExhausted(exhausted, getPRD(storage'))
  /\ UNCHANGED <<alarmSet, alarmRun, sent, passed>>

handleFail(taskId, error, t) ==
  /\ StoreFail(taskId, error, t)
  /\ UNCHANGED <<agentVars, toolVars>>

handleGetNextTask ==
  /\ Deliverable
  /\ storage' = StoreInit(storage)
  /\ response' = [op |-> "get-next-task", status |-> 200,
                  taskId |-> FirstEligible(getPRD(storage))]
  /\ UNCHANGED <<alarmSet, alarmRun, sent, outstanding, passed, exhausted>>
  /\ UNCHANGED <<agentVars, toolVars>>

\* what /get-prd does to the store
StoreGetPRD ==
  /\ Deliverable
  /\ storage' = StoreInit(storage)
  /\ response' = [op |-> "get-prd", status |-> 200, taskId |-> Null]
  /\ UNCHANGED <<alarmSet, alarmRun, sent, outstanding, passed, exhausted>>

handleGetPRD ==
  /\ StoreGetPRD
  /\ UNCHANGED <<agentVars, toolVars>>

handleGetProgress ==
  /\ Deliverable
  /\ response' = [op |-> "get-progress", status |-> 200, taskId |-> Null]
  /\ UNCHANGED <<storage, alarmSet, alarmRun, sent, outstanding, passed, exhausted>>
  /\ UNCHANGED <<agentVars, toolVars>>

\* the ProgressEntry bodies posted to /update-progress
ProgressEntries ==
  { [timestamp |-> "ts", taskId |-> "T1", description |-> "d1",
     learnings |-> <<"y">>, filesChanged |-> <<"f">>] }

handleUpdateProgress(entry) ==
  /\ Deliverable
  /\ storage' = appendProgress(storage, entry)
  /\ response' = [op |-> "update-progress", status |-> 200, taskId |-> Null]
  /\ UNCHANGED <<alarmSet, alarmRun, sent, outstanding, passed, exhausted>>
  /\ UNCHANGED <<agentVars, toolVars>>

\* alarm(), first part: the runtime fires the pending alarm; the handler reads
\* the ledger, picks the first eligible task and persists its incremented
\* attempts (or returns when no task is eligible)
AlarmSelect ==
  /\ alarmSet
  /\ alarmRun.pc = "idle"
  /\ alarmSet' = FALSE
  /\ LET prd == getPRD(storage)
         taskId == FirstEligible(prd)
     IN IF taskId = Null
        THEN /\ storage' = StoreInit(storage)
             /\ alarmRun' = Idle
        ELSE /\ storage' = putPRD(storage, AlarmIncrement(prd, taskId))
             /\ alarmRun' = [pc |-> "persisted", taskId |-> taskId]
  /\ exhausted' = TrackExhausted(exhausted, getPRD(storage'))
  /\ UNCHANGED <<response, sent, outstanding, passed>>
  /\ UNCHANGED <<agentVars, toolVars>>

\* alarm(), second part: the fetch of /execute is issued for the selected task
AlarmFetch ==
  /\ alarmRun.pc = "persisted"
  /\ alarmRun' = [alarmRun EXCEPT !.pc = "awaiting"]
  /\ sent' = [sent EXCEPT ![alarmRun.taskId] = sent[alarmRun.taskId] + 1]
  /\ outstanding' = [outstanding EXCEPT ![alarmRun.taskId] = TRUE]
  /\ UNCHANGED <<storage, alarmSet, response, passed, exhausted>>
  /\ UNCHANGED <<agentVars, toolVars>>

\* AfterFetch putting the entry alarm() holds in memory (selected, so not
\* passed) back into the ledger
AfterFetchWritesBack(s, taskId) ==
  IF taskId \in DOMAIN getPRD(s).tasks
  THEN putPRD(s, [getPRD(s) EXCEPT !.tasks[taskId].passes = FALSE])
  ELSE s

\* storage when alarm() returns: after its fetch settles the handler only
\* logs and breaks, it puts nothing
AfterFetch(s, taskId) == s

\* alarm(), last part: the fetch resolves or throws; either is only logged and
\* the handler leaves the loop
AlarmReturn(outcome) ==
  /\ alarmRun.pc = "awaiting"
  /\ alarmRun' = [pc |-> "idle", taskId |-> Null]
  /\ storage' = AfterFetch(storage, alarmRun.taskId)
  /\ UNCHANGED <<alarmSet, response, sent, outstanding, passed, exhausted>>
  /\ UNCHANGED <<agentVars, toolVars>>

\* the learnings a result carries for the progress log
LearningsOf(result) == IF HasLearnings(result) THEN result.learnings ELSE <<>>

\* the progress log has room for the entry these learnings would add
HasRoom(learnings) ==
  Len(learnings) > 0 => Len(getProgress(storage)) < MaxProgress

\* the handlers stay within the bounds: the ledger version is below n and the
\* progress log has room
Within(n, learnings) ==
  /\ getPRD(storage).version < n
  /\ HasRoom(learnings)

\* the steps that read the store or run the alarm handler
ReadOrAlarm ==
  \/ handleGetNextTask
  \/ handleGetPRD
  \/ handleGetProgress
  \/ \E entry \in ProgressEntries :
        HasRoom(entry.learnings) /\ handleUpdateProgress(entry)
  \/ AlarmSelect
  \/ AlarmFetch
  \/ \E outcome \in FetchOutcomes : AlarmReturn(outcome)

Next ==
  \/ \E task \in Tasks : Within(MaxVersion, <<>>) /\ handleEnqueue(task)
  \/ \E taskId \in TaskIds, result \in Results, t \in Times :
        Within(MaxVersion, LearningsOf(result)) /\ handleComplete(taskId, result, t)
  \/ \E taskId \in TaskIds, error \in Errors, t \in Times :
        Within(MaxVersion, <<>>) /\ handleFail(taskId, error, t)
  \/ ReadOrAlarm

Spec == Init /\ [][Next]_vars

\* the inputs of the specification of the dispatch loop: results without
\* learnings, one error message, one time
DispatchResults == {r \in Results : ~HasLearnings(r)}
DispatchErrors == {"e1"}
DispatchTimes == {0}

NextDispatch ==
  \/ \E task \in Tasks : Within(MaxDispatchVersion, <<>>) /\ handleEnqueue(task)
  \/ \E taskId \in TaskIds, result \in DispatchResults, t \in DispatchTimes :
        Within(MaxDispatchVersion, <<>>) /\ handleComplete(taskId, result, t)
  \/ \E taskId \in TaskIds, error \in DispatchErrors, t \in DispatchTimes :
        Within(MaxDispatchVersion, <<>>) /\ handleFail(taskId, error, t)
  \/ ReadOrAlarm

\* the same store driven deeper, with fewer input values
SpecDispatch == Init /\ [][NextDispatch]_vars

\* ----------------------------------------------------------------------
\* The Execution Agent and its HTTP server
\* ----------------------------------------------------------------------
\* at most this many execute() calls are started
MaxExecutions == 1

\* the ids generateExecutionId() and the /execute handler may produce
ExecIds == {"exec-a", "exec-b"}

\* the ExecutionRequest bodies posted to /execute ("" = the field is missing)
Requests ==
  { [taskId |-> "T1", repoUrl |-> "r", branchName |-> "task/t1",
     prompt |-> "p", callbackUrl |-> "cb"],
    [taskId |-> "T2", repoUrl |-> "r", branchName |-> "task/t2",
     prompt |-> "p", callbackUrl |-> ""],
    [taskId |-> "T2", repoUrl |-> "r", branchName |-> "task/t2",
     prompt |-> "", callbackUrl |-> "cb"],
    [taskId |-> "", repoUrl |-> "r", branchName |-> "task/t1",
     prompt |-> "p", callbackUrl |-> "cb"],
    [taskId |-> "T1", repoUrl |-> "", branchName |-> "task/t1",
     prompt |-> "p", callbackUrl |-> "cb"],
    [taskId |-> "T1", repoUrl |-> "r", branchName |-> "",
     prompt |-> "p", callbackUrl |-> "cb"] }

\* HasRequiredFields without the test of the prompt
HasRequiredFieldsButPrompt(request) ==
  /\ request.taskId # ""
  /\ request.repoUrl # ""
  /\ request.branchName # ""

\* the validation of POST /execute
HasRequiredFields(request) ==
  /\ request.taskId # ""
  /\ request.repoUrl # ""
  /\ request.branchName # ""
  /\ request.prompt # ""

\* an awaited call returns or throws
StepOutcomes == {"ok", "throws"}

\* what ClaudeRunner.run reports: exit code 0, completion marker seen
ClaudeResults == [success : BOOLEAN, completed : BOOLEAN]

\* what the spawned claude process does: how it ends ("signal": closed with
\* a null exit code) and whether its output holds the completion marker
ProcessRuns ==
  [exit : {"zero", "nonzero", "signal", "spawn-error", "timeout"},
   marker : BOOLEAN]

\* ClaudeRunner.run(): success is `exitCode === 0` with exitCode = code || 0;
\* a spawn error and the 30 minute timeout reject the wait and are caught,
\* before the output is searched for the marker
ClaudeRunnerRun(process) ==
  IF process.exit \in {"spawn-error", "timeout"}
  THEN [success |-> FALSE, completed |-> FALSE]
  ELSE [success |-> process.exit \in {"zero", "signal"},
        completed |-> process.marker]

\* String.prototype.includes
Contains(text, sub) ==
  \E t \in {text} :
    \E i \in 1..(Len(t) - Len(sub) + 1) :
       SubSeq(t, i, i + Len(sub) - 1) = sub

\* what `npm test` does in the worktree: whether package.json has a test
\* script, how the command ends, and what it wrote to stderr
TestRuns ==
  { [script |-> TRUE, exit |-> "zero", stderr |-> ""],
    [script |-> FALSE, exit |-> "nonzero",
     stderr |-> "npm error Missing script: test"],
    [script |-> TRUE, exit |-> "nonzero", stderr |-> "1 failing"],
    [script |-> TRUE, exit |-> "nonzero",
     stderr |-> "npm error Missing script: build"],
    [script |-> TRUE, exit |-> "timeout", stderr |-> "1 failing"] }

\* the message of the error execAsync rejects with
ExecMessage(command, stderr) == "Command failed: " \o command \o "\n" \o stderr

\* QualityChecker.runTests(): true when the command succeeds or its error
\* message includes 'Missing script'; any other error is thrown again
runTests(testRun) ==
  IF testRun.exit = "zero"
  THEN [returns |-> TRUE, message |-> ""]
  ELSE LET message == ExecMessage("npm test", testRun.stderr)
       IN IF Contains(message, "Missing script")
          THEN [returns |-> TRUE, message |-> ""]
          ELSE [returns |-> FALSE, message |-> message]

\* what `npm run lint` does
LintRuns == {"ok", "missing-script", "nonzero", "timeout"}

\* runLint() answering false when the lint command fails
runLintStrict(lintRun) == lintRun \in {"ok", "missing-script"}

\* QualityChecker.runLint(): true on success, on a missing script and on
\* every other failure of the command
runLint(lintRun) ==
  IF lintRun = "ok" THEN TRUE
  ELSE IF lintRun = "missing-script" THEN TRUE
  ELSE TRUE

\* what the commands of the quality gate do in the worktree; runTypecheck
\* returns true ("ok") or throws
GateRuns ==
  [packageJson : BOOLEAN, typecheck : StepOutcomes, tests : TestRuns,
   lint : LintRuns]

\* the commits the remote may have at the tip of origin/<baseBranch>
Tips == {"c1", "c2"}

\* files of a worktree directory: the .git file that makes it a worktree,
\* what npm install creates, the generated prompt file, a file the coding
\* agent wrote
GitFile == ".git"
InstallDir == "node_modules"
PromptFile == ".ralph/prompt.md"
AgentFile == "src/task.ts"

\* what the repository's ignore rules may cover of those files
Ignores == {{}, {InstallDir}, {InstallDir, PromptFile}}

\* what git status does in the worktree: it throws, or it lists the files
\* the ignore rules do not cover
DiffOutcomes ==
  {[throws |-> TRUE, ignored |-> {}]}
  \cup {[throws |-> FALSE, ignored |-> ignored] : ignored \in Ignores}

\* what the commands of createWorktree do: mkdir, git fetch (the tip of
\* origin/<baseBranch> it brings, or "throws"), git worktree add
WorktreeRuns ==
  [mkdir : StepOutcomes, fetch : Tips \cup {"throws"}, add : StepOutcomes]

\* path.join(repoPath, '.worktrees', branchName)
WorktreePath(branchName) == "/workspace/rocket/.worktrees/" \o branchName

\* the directory exists
Exists(r, path) == path \in DOMAIN r.worktrees

\* the files in the directory
FilesAt(r, path) == IF Exists(r, path) THEN r.worktrees[path] ELSE {}

\* the directory is a worktree of the clone
IsWorktree(r, path) == GitFile \in FilesAt(r, path)

\* a file is written in the directory, which mkdir -p creates when missing
AddFile(r, path, file) ==
  [r EXCEPT !.worktrees = (path :> (FilesAt(r, path) \cup {file})) @@ @]

\* `git worktree remove <path> --force`: a worktree is deleted with all it
\* holds; for anything else the command fails and changes nothing
WorktreeRemove(r, path) ==
  IF IsWorktree(r, path)
  THEN [r EXCEPT !.worktrees = [q \in DOMAIN @ \ {path} |-> @[q]]]
  ELSE r

\* `git worktree add` refuses a path that exists and is not empty
WorktreeAddFails(r, path) == Exists(r, path)

\* `git worktree add -B <branch> <path> origin/<base>`: the branch is created
\* or reset to the fetched tip and checked out in a new directory
WorktreeAdd(r, branchName, path, tip) ==
  [worktrees |-> (path :> {GitFile}) @@ r.worktrees,
   branches |-> (branchName :> [base |-> tip, ahead |-> 0]) @@ r.branches]

\* RemoveExisting leaving what is at the path
RemoveExistingSkipped(r, path) == r

\* createWorktree's removal of the worktree that is already at the path;
\* a failure of the command is ignored
RemoveExisting(r, path) == WorktreeRemove(r, path)

\* the files git status lists, in its order
StatusFiles(r, path, ignored) ==
  SelectSeq(<<PromptFile, InstallDir, AgentFile>>,
            LAMBDA f : f \in FilesAt(r, path) \ ignored)

RECURSIVE JoinComma(_)
\* Array.prototype.join(', ')
JoinComma(items) ==
  IF items = <<>> THEN ""
  ELSE IF Len(items) = 1 THEN items[1]
  ELSE items[1] \o ", " \o JoinComma(Tail(items))

\* QualityChecker.runAll() for the given behaviour of its commands
runAll(env) ==
  IF ~env.packageJson
  THEN [typecheck |-> FALSE, tests |-> FALSE, lint |-> FALSE,
        errors |-> <<"No package.json found">>]
  ELSE LET tests == runTests(env.tests)
       IN [typecheck |-> env.typecheck = "ok",
           tests |-> tests.returns,
           lint |-> runLint(env.lint),
           errors |->
             (IF env.typecheck = "ok" THEN <<>> ELSE <<"Typecheck failed: tc">>)
             \o (IF tests.returns THEN <<>>
                 ELSE <<"Tests failed: " \o tests.message>>)]

\* what runAll() returns for each behaviour of the worktree's commands
Verdicts == [env \in GateRuns |-> runAll(env)]

\* runAll() step by step ------------------------------------------------
\* the results object runAll() starts from
NoResults ==
  [typecheck |-> FALSE, tests |-> FALSE, lint |-> FALSE, errors |-> <<>>]

\* new QualityChecker(worktreePath).runAll() is called in a worktree whose
\* commands behave as env says
startChecks(env) ==
  /\ checker.pc = "idle"
  /\ checker' = [pc |-> "access", env |-> env, results |-> NoResults,
                 commands |-> <<>>]
  /\ UNCHANGED <<storeVars, agentVars, retry, callback>>

\* fs.access(package.json): without a manifest runAll() returns at once
checkAccess ==
  /\ checker.pc = "access"
  /\ checker' =
       IF checker.env.packageJson
       THEN [checker EXCEPT !.pc = "typecheck"]
       ELSE [checker EXCEPT
               !.pc = "done",
               !.results.errors = Append(@, "No package.json found")]
  /\ UNCHANGED <<storeVars, agentVars, retry, callback>>

\* results.typecheck = await this.runTypecheck(), its error pushed
checkTypecheck ==
  /\ checker.pc = "typecheck"
  /\ checker' =
       [checker EXCEPT
          !.pc = "tests",
          !.commands = Append(@, "npm run typecheck"),
          !.results.typecheck = checker.env.typecheck = "ok",
          !.results.errors = IF checker.env.typecheck = "ok" THEN @
                             ELSE Append(@, "Typecheck failed: tc")]
  /\ UNCHANGED <<storeVars, agentVars, retry, callback>>

\* results.tests = await this.runTests(), its error pushed
checkTests ==
  /\ checker.pc = "tests"
  /\ LET tests == runTests(checker.env.tests)
     IN checker' =
          [checker EXCEPT
             !.pc = "lint",
             !.commands = Append(@, "npm test"),
             !.results.tests = tests.returns,
             !.results.errors = IF tests.returns THEN @
                                ELSE Append(@, "Tests failed: " \o tests.message)]
  /\ UNCHANGED <<storeVars, agentVars, retry, callback>>

\* results.lint = await this.runLint(); then runAll() returns
checkLint ==
  /\ checker.pc = "lint"
  /\ checker' = [checker EXCEPT
                   !.pc = "done",
                   !.commands = Append(@, "npm run lint"),
                   !.results.lint = runLint(checker.env.lint)]
  /\ UNCHANGED <<storeVars, agentVars, retry, callback>>

\* runAll() calls over every behaviour of the worktree's commands
NextGate ==
  \/ \E env \in GateRuns : startChecks(env)
  \/ checkAccess
  \/ checkTypecheck
  \/ checkTests
  \/ checkLint

SpecGate == Init /\ [][NextGate]_vars

\* retryWithBackoff() ---------------------------------------------------
\* the largest maxAttempts option of the calls explored
MaxRetries == 3

\* the options of the calls explored: delays in units of time; the initial
\* delay may exceed maxDelay
RetryOptions ==
  [maxAttempts : 0..MaxRetries, initialDelay : {1, 5}, maxDelay : {3},
   backoffFactor : {1, 2}]

\* what one call of fn does: it resolves with a value or rejects with an error
FnOutcomes == {"value", "e1", "e2"}

\* Math.min
Min(a, b) == IF a < b THEN a ELSE b

\* the next delay without the maxDelay cap
NextDelayUncapped(delay, options) == delay * options.backoffFactor

\* delay = Math.min(delay * backoffFactor, maxDelay)
NextDelay(delay, options) ==
  Min(delay * options.backoffFactor, options.maxDelay)

\* retryWithBackoff(fn, options) is called: lastError undefined, delay =
\* initialDelay, and the loop is entered when 1 <= maxAttempts (thrown lists
\* the errors fn rejected with, sleeps the delays slept, in order)
startRetry(options) ==
  /\ retry.pc = "idle"
  /\ retry' = [pc |-> IF 1 <= options.maxAttempts THEN "call" ELSE "thrown",
               options |-> options, attempt |-> 1,
               delay |-> options.initialDelay, lastError |-> None,
               result |-> None, calls |-> 0, thrown |-> <<>>, sleeps |-> <<>>]
  /\ UNCHANGED <<storeVars, agentVars, checker, callback>>

\* return await fn(), and the catch block up to its await of sleep(delay)
callFn(outcome) ==
  /\ retry.pc = "call"
  /\ retry' =
       IF outcome = "value"
       THEN [retry EXCEPT !.pc = "returned", !.calls = @ + 1,
                          !.result = outcome]
       ELSE IF retry.attempt = retry.options.maxAttempts
       THEN [retry EXCEPT !.pc = "thrown", !.calls = @ + 1,
                          !.thrown = Append(@, outcome),
                          !.lastError = outcome, !.result = outcome]
       ELSE [retry EXCEPT !.pc = "sleep", !.calls = @ + 1,
                          !.thrown = Append(@, outcome),
                          !.lastError = outcome,
                          !.sleeps = Append(@, retry.delay)]
  /\ UNCHANGED <<storeVars, agentVars, checker, callback>>

\* the sleep is over: the delay grows and the loop goes to its next attempt
wake ==
  /\ retry.pc = "sleep"
  /\ retry' =
       LET next == [retry EXCEPT !.delay = NextDelay(retry.delay, retry.options),
                                 !.attempt = @ + 1]
       IN IF next.attempt <= retry.options.maxAttempts
          THEN [next EXCEPT !.pc = "call"]
          ELSE [next EXCEPT !.pc = "thrown", !.result = retry.lastError]
  /\ UNCHANGED <<storeVars, agentVars, checker, callback>>

\* a retryWithBackoff() call over every option and every behaviour of fn
NextRetry ==
  \/ \E options \in RetryOptions : startRetry(options)
  \/ \E outcome \in FnOutcomes : callFn(outcome)
  \/ wake

\* fn settles and the timer of sleep fires
SpecRetry == Init /\ [][NextRetry]_vars /\ WF_vars(NextRetry)

\* The coordinator's /callbacks/execution handler ------------------------
\* the number of callbacks the coordinator handles in a behaviour
MaxCallbacks == 2

\* the maxAttempts that createPullRequest passes to retryWithBackoff
GitHubAttempts == 3

\* the ExecutionResult bodies the execution server posts
CallbackResults ==
  [taskId : TaskIds, success : {TRUE}, learnings : {<<>>, <<"x", "y">>},
   error : {None}]
  \cup [taskId : TaskIds, success : {FALSE}, learnings : {<<>>},
        error : {None, "e1"}]

\* what the GitHub API does at each attempt to create the pull request
GitHubRuns == [1..GitHubAttempts -> {"created", "error"}]

\* the html_url of the pull request GitHub created for a branch
PullRequestUrl(branchName) == "https://github.com/o/r/pull/" \o branchName

RECURSIVE RetryFrom(_, _, _)
\* retryWithBackoff from attempt i on: the first attempt that succeeds ends
\* the loop, and the last attempt's failure is thrown
RetryFrom(outcomes, maxAttempts, i) ==
  IF outcomes[i] = "created" THEN [ok |-> TRUE, attempts |-> i]
  ELSE IF i = maxAttempts THEN [ok |-> FALSE, attempts |-> i]
  ELSE RetryFrom(outcomes, maxAttempts, i + 1)

\* createPullRequest answering with a pull request whatever GitHub does
createPullRequestSwallows(github) == [ok |-> TRUE, attempts |-> 1]

\* GitHubClient.createPullRequest: the request is retried up to three times
createPullRequest(github) == RetryFrom(github, GitHubAttempts, 1)

\* !task for task = prd.tasks[result.taskId]
TaskMissing(prd, taskId) == taskId \notin DOMAIN prd.tasks

\* result.error || 'Execution failed'
ErrorOf(result) == IF result.error = None THEN "Execution failed" ELSE result.error

\* the result with result.prUrl = pr.html_url, as /complete reads it
WithPrUrl(result, url) ==
  [success |-> result.success, prUrl |-> url, learnings |-> result.learnings]

\* an outbound call of the handler: to the store (with the status of its
\* answer), to GitHub or to the backlog
Call(op, arg, status) == [op |-> op, arg |-> arg, status |-> status]

\* handleExecutionCallback is called with the posted result
receiveCallback(result) ==
  /\ callback.pc \in {"idle", "done"}
  /\ callback.handled < MaxCallbacks
  /\ callback' = [pc |-> IF result.success THEN "get-prd" ELSE "fail",
                  handled |-> callback.handled + 1,
                  result |-> result, branchName |-> None, prUrl |-> None,
                  error |-> None, calls |-> <<>>, status |-> 0]
  /\ UNCHANGED <<storeVars, agentVars, checker, retry>>

\* success: stub.fetch(get-prd) and the lookup of the task; a missing task
\* is thrown to the inner catch block
callbackGetPRD ==
  /\ callback.pc = "get-prd"
  /\ StoreGetPRD
  /\ LET prd == getPRD(storage)
         taskId == callback.result.taskId
     IN callback' =
          IF TaskMissing(prd, taskId)
          THEN [callback EXCEPT
                  !.pc = "catch",
                  !.calls = Append(@, Call("get-prd", taskId, 200)),
                  !.error = "Task " \o taskId \o " not found in PRD"]
          ELSE [callback EXCEPT
                  !.pc = "create-pr",
                  !.calls = Append(@, Call("get-prd", taskId, 200)),
                  !.branchName = prd.tasks[taskId].branchName]
  /\ UNCHANGED <<agentVars, checker, retry>>

\* await github.createPullRequest; result.prUrl = pr.html_url
callbackCreatePR(github) ==
  /\ callback.pc = "create-pr"
  /\ callback' =
       IF createPullRequest(github).ok
       THEN [callback EXCEPT
               !.pc = "complete",
               !.prUrl = PullRequestUrl(callback.branchName),
               !.calls = Append(@, Call("create-pr", callback.branchName, 201))]
       ELSE [callback EXCEPT
               !.pc = "catch",
               !.error = "GitHub API error",
               !.calls = Append(@, Call("create-pr", callback.branchName, 422))]
  /\ UNCHANGED <<storeVars, agentVars, checker, retry>>

\* stub.fetch(complete) with the result that carries the PR's URL
callbackComplete(t) ==
  /\ callback.pc = "complete"
  /\ StoreComplete(callback.result.taskId,
                   WithPrUrl(callback.result, callback.prUrl), t)
  /\ callback' = [callback EXCEPT
                    !.pc = "complete-task",
                    !.calls = Append(@, Call("complete", callback.prUrl,
                                             response'.status))]
  /\ UNCHANGED <<agentVars, checker, retry>>

\* vibeClient.completeTask(taskId, pr.html_url), which logs its own failure
callbackCompleteTask(outcome) ==
  /\ callback.pc = "complete-task"
  /\ callback' = [callback EXCEPT
                    !.pc = "respond",
                    !.calls = Append(@, Call("completeTask", callback.prUrl, 0))]
  /\ UNCHANGED <<storeVars, agentVars, checker, retry>>

\* the inner catch block: stub.fetch(fail) with the message of the error
callbackCatch(t) ==
  /\ callback.pc = "catch"
  /\ StoreFail(callback.result.taskId, callback.error, t)
  /\ callback' = [callback EXCEPT
                    !.pc = "respond",
                    !.calls = Append(@, Call("fail", callback.error,
                                             response'.status))]
  /\ UNCHANGED <<agentVars, checker, retry>>

\* success=false: stub.fetch(fail) with the error of the result
callbackFail(t) ==
  /\ callback.pc = "fail"
  /\ StoreFail(callback.result.taskId, ErrorOf(callback.result), t)
  /\ callback' = [callback EXCEPT
                    !.pc = "fail-task",
                    !.calls = Append(@, Call("fail", ErrorOf(callback.result),
                                             response'.status))]
  /\ UNCHANGED <<agentVars, checker, retry>>

\* vibeClient.failTask(taskId, error), which logs its own failure
callbackFailTask(outcome) ==
  /\ callback.pc = "fail-task"
  /\ callback' = [callback EXCEPT
                    !.pc = "respond",
                    !.calls = Append(@, Call("failTask",
                                             ErrorOf(callback.result), 0))]
  /\ UNCHANGED <<storeVars, agentVars, checker, retry>>

\* return Response.json({ ok: true })
callbackRespond ==
  /\ callback.pc = "respond"
  /\ callback' = [callback EXCEPT !.pc = "done", !.status = 200]
  /\ UNCHANGED <<storeVars, agentVars, checker, retry>>

\* the store fed by the poller, and the coordinator handling one execution
\* callback after another
NextCoordinator ==
  \/ \E task \in Tasks : Within(MaxVersion, <<>>) /\ handleEnqueue(task)
  \/ \E result \in CallbackResults :
        HasRoom(result.learnings) /\ receiveCallback(result)
  \/ callbackGetPRD
  \/ \E github \in GitHubRuns : callbackCreatePR(github)
  \/ \E t \in Times : callbackComplete(t) \/ callbackCatch(t) \/ callbackFail(t)
  \/ \E outcome \in StepOutcomes :
        callbackCompleteTask(outcome) \/ callbackFailTask(outcome)
  \/ callbackRespond

SpecCoordinator == Init /\ [][NextCoordinator]_vars

\* the ExecutionState execute() registers
NewState(id, request) ==
  [id |-> id, taskId |-> request.taskId, status |-> "running",
   worktreePath |-> None, completedAt |-> None]

\* new Date().toISOString() in the agent: one instant stands for all
Now == toISOString(0)

\* the catch block's state.status = 'failed' with completedAt
Failed(map, e) == [map EXCEPT ![e].status = "failed", ![e].completedAt = Now]

\* the locals of an execute() call that reached its first await
NewRun(request) ==
  [request |-> request, pc |-> "clone",
   error |-> None, created |-> FALSE, commits |-> 0, pushes |-> 0,
   deleted |-> FALSE, delivered |-> <<>>, logged |-> None, result |-> <<>>,
   prompt |-> None]

\* the ExecutionResult of the success path
SuccessResult(request) ==
  [taskId |-> request.taskId, success |-> TRUE, error |-> None,
   testsPass |-> TRUE, typecheckPass |-> TRUE]

\* the ExecutionResult of the catch block
FailureResult(request, message) ==
  [taskId |-> request.taskId, success |-> FALSE, error |-> message,
   testsPass |-> FALSE, typecheckPass |-> FALSE]

\* the ExecutionResult returned when the quality gate fails
GateResult(request, q) ==
  [taskId |-> request.taskId, success |-> FALSE,
   error |-> "Quality checks failed: " \o JoinComma(q.errors),
   testsPass |-> q.tests, typecheckPass |-> q.typecheck]

\* GatePasses looking at the typecheck verdict only
GatePassesIgnoresTests(q) == q.typecheck

\* the gate lets the pipeline go on to commit and push
GatePasses(q) == ~(~q.typecheck \/ ~q.tests)

\* the run leaves execute() with the result
Returned(run, result) == [run EXCEPT !.pc = "returned", !.result = <<result>>]

\* Caught going on to the clean-up of the success path
CaughtThenCleanup(run, message) ==
  [run EXCEPT !.pc = "cleanup", !.error = message]

\* the run enters the catch block with the error: it returns the failure
\* result, after the await of notifyCallback when there is a callbackUrl
Caught(run, message) ==
  IF run.request.callbackUrl # ""
  THEN [run EXCEPT !.pc = "catch-notify", !.error = message]
  ELSE Returned([run EXCEPT !.error = message],
                FailureResult(run.request, message))

\* generateExecutionId() in execute(): a timestamp and a random suffix, an
\* id that no execution of the map has; the ids are named in the order in
\* which execute() draws them
generateExecutionId(map) ==
  IF "exec-a" \notin DOMAIN map THEN {"exec-a"} ELSE ExecIds \ DOMAIN map

\* the execute() calls that have not returned: the handler drops the
\* result a call resolves with, so nothing of a returned call remains
Pending(calls) ==
  [e \in {x \in DOMAIN calls : calls[x].pc \notin {"returned", "rejected"}} |->
     calls[e]]

\* POST /execute: 400 for a missing field; otherwise the handler draws an
\* executionId, starts agent.execute(request), which draws its own id and
\* registers its state before its first await, and returns the handler's id
handleExecute(request) ==
  /\ IF ~HasRequiredFields(request)
     THEN /\ reply' = [op |-> "execute", code |-> 400]
          /\ UNCHANGED <<executions, runs>>
     ELSE /\ \E executionId \in ExecIds, agentId \in generateExecutionId(executions) :
             /\ executions' =
                  executions @@ (agentId :> NewState(agentId, request))
             /\ runs' = Pending(runs) @@ (agentId :> NewRun(request))
             /\ reply' = [op |-> "execute", code |-> 200,
                          executionId |-> executionId,
                          taskId |-> request.taskId]
  /\ UNCHANGED repo
  /\ UNCHANGED <<storeVars, toolVars>>

\* step 1: await GitManager.cloneIfNeeded
cloneIfNeeded(e, outcome) ==
  /\ e \in DOMAIN runs
  /\ runs[e].pc = "clone"
  /\ IF outcome = "ok"
     THEN /\ runs' = [runs EXCEPT ![e].pc = "worktree"]
          /\ UNCHANGED executions
     ELSE /\ runs' = [runs EXCEPT ![e] = Caught(@, "clone failed")]
          /\ executions' = Failed(executions, e)
  /\ UNCHANGED <<reply, repo>>
  /\ UNCHANGED <<storeVars, toolVars>>

\* step 2: await gitManager.createWorktree (mkdir, removal of what is at the
\* path, git fetch, git worktree add); state.worktreePath = worktreePath
createWorktree(e, gitRun) ==
  /\ e \in DOMAIN runs
  /\ runs[e].pc = "worktree"
  /\ LET branchName == runs[e].request.branchName
         path == WorktreePath(branchName)
         removed == RemoveExisting(repo, path)
     IN IF gitRun.mkdir = "throws"
        THEN /\ runs' = [runs EXCEPT ![e] = Caught(@, "mkdir failed")]
             /\ executions' = Failed(executions, e)
             /\ UNCHANGED repo
        ELSE IF gitRun.fetch = "throws"
        THEN /\ runs' = [runs EXCEPT ![e] = Caught(@, "fetch failed")]
             /\ executions' = Failed(executions, e)
             /\ repo' = removed
        ELSE IF gitRun.add = "throws" \/ WorktreeAddFails(removed, path)
        THEN /\ runs' = [runs EXCEPT ![e] =
                           Caught(@, "Failed to create worktree: git")]
             /\ executions' = Failed(executions, e)
             /\ repo' = removed
        ELSE /\ runs' = [runs EXCEPT ![e].pc = "install", ![e].created = TRUE]
             /\ executions' = [executions EXCEPT ![e].worktreePath = path]
             /\ repo' = WorktreeAdd(removed, branchName, path, gitRun.fetch)
  /\ UNCHANGED reply
  /\ UNCHANGED <<storeVars, toolVars>>

\* step 3: await qualityChecker.installDependencies: it returns when
\* node_modules is there, else it runs npm install in the worktree, which
\* cannot start in a directory that is gone
installDependencies(e, outcome) ==
  /\ e \in DOMAIN runs
  /\ runs[e].pc = "install"
  /\ LET path == WorktreePath(runs[e].request.branchName)
     IN /\ ~Exists(repo, path) => outcome = "throws"
        /\ InstallDir \in FilesAt(repo, path) => outcome = "ok"
        /\ IF outcome = "ok"
           THEN /\ runs' = [runs EXCEPT ![e].pc = "prompt"]
                /\ repo' = AddFile(repo, path, InstallDir)
                /\ UNCHANGED executions
           ELSE /\ runs' = [runs EXCEPT ![e] = Caught(@, "npm install failed")]
                /\ executions' = Failed(executions, e)
                /\ UNCHANGED repo
  /\ UNCHANGED reply
  /\ UNCHANGED <<storeVars, toolVars>>

\* the number of characters of progress.txt that reach the prompt
ContextLimit == 2000

RECURSIVE Repeat(_, _)
\* n copies of a text
Repeat(text, n) == IF n = 0 THEN "" ELSE text \o Repeat(text, n - 1)

\* what <repoPath>/.ralph/progress.txt of the clone holds (None = the file
\* cannot be read); the last text is longer than ContextLimit
ProgressFiles == {None, "", "- old", Repeat("0123456789", 200) \o "- latest"}

\* the clone of the executions of SpecAgent and SpecWorktree has no
\* progress.txt
AgentProgressFiles == {None}

\* getProgressContext: the last ContextLimit characters of the file, '' when
\* reading it throws
getProgressContext(progressFile) ==
  IF progressFile = None THEN ""
  ELSE IF Len(progressFile) > ContextLimit
       THEN SubSeq(progressFile, Len(progressFile) - ContextLimit + 1,
                   Len(progressFile))
       ELSE progressFile

\* the text ClaudeRunner.generatePromptFile writes
RenderPrompt(taskDescription, progressContext) ==
  "# Task\n\n" \o taskDescription \o "\n\n## Context\n\n"
  \o "Repository: naturaumana-ai/rocket\n"
  \o "\n## Requirements\n\n- All tests must pass\n\n"
  \o (IF progressContext # ""
      THEN "## Previous Learnings\n\n" \o progressContext \o "\n"
      ELSE "")
  \o "\n\n## Success Criteria\n\n<promise>COMPLETE</promise>\n"

\* step 4: await getProgressContext (never throws) and generatePromptFile,
\* which writes <worktree>/.ralph/prompt.md
generatePromptFile(e, outcome, progressFile) ==
  /\ e \in DOMAIN runs
  /\ runs[e].pc = "prompt"
  /\ IF outcome = "ok"
     THEN /\ runs' = [runs EXCEPT
                       ![e].pc = "claude",
                       ![e].prompt =
                          RenderPrompt(runs[e].request.prompt,
                                       getProgressContext(progressFile))]
          /\ repo' = AddFile(repo, WorktreePath(runs[e].request.branchName),
                             PromptFile)
          /\ UNCHANGED executions
     ELSE /\ runs' = [runs EXCEPT ![e] = Caught(@, "prompt file failed")]
          /\ executions' = Failed(executions, e)
          /\ UNCHANGED repo
  /\ UNCHANGED reply
  /\ UNCHANGED <<storeVars, toolVars>>

\* ClaudeFailed taking a run without the completion marker for a failure
ClaudeFailedOrIncomplete(claudeResult) ==
  ~claudeResult.success \/ ~claudeResult.completed

\* if (!claudeResult.success) throw new Error('Claude execution failed')
ClaudeFailed(claudeResult) == ~claudeResult.success

\* step 5: await claudeRunner.run, which never throws; success=false is
\* thrown as 'Claude execution failed', completed=false is only logged. The
\* agent may have written a file in the worktree (edits); in a directory
\* that is gone the process cannot be spawned
claudeRun(e, claudeResult, edits) ==
  /\ e \in DOMAIN runs
  /\ runs[e].pc = "claude"
  /\ LET path == WorktreePath(runs[e].request.branchName)
     IN /\ ~Exists(repo, path) => (~claudeResult.success /\ ~edits)
        /\ repo' = IF edits THEN AddFile(repo, path, AgentFile) ELSE repo
  /\ IF ~ClaudeFailed(claudeResult)
     THEN /\ runs' = [runs EXCEPT ![e].pc = "gate"]
          /\ UNCHANGED executions
     ELSE /\ runs' = [runs EXCEPT ![e] = Caught(@, "Claude execution failed")]
          /\ executions' = Failed(executions, e)
  /\ UNCHANGED reply
  /\ UNCHANGED <<storeVars, toolVars>>

\* step 6: await qualityChecker.runAll; a failed gate sets status 'failed'
\* and returns its result. A directory that is not a checkout has no
\* package.json
qualityGate(e, env) ==
  /\ e \in DOMAIN runs
  /\ runs[e].pc = "gate"
  /\ ~IsWorktree(repo, WorktreePath(runs[e].request.branchName)) =>
        ~env.packageJson
  /\ LET q == Verdicts[env]
     IN IF GatePasses(q)
        THEN /\ runs' = [runs EXCEPT ![e].pc = "diff"]
             /\ UNCHANGED executions
        ELSE /\ runs' = [runs EXCEPT ![e] =
                           Returned(@, GateResult(runs[e].request, q))]
             /\ executions' = [executions EXCEPT ![e].status = "failed"]
  /\ UNCHANGED <<reply, repo>>
  /\ UNCHANGED <<storeVars, toolVars>>

\* the list gitManager.getChangedFiles returns: the paths git status lists
ChangedFiles(r, path, outcome) == StatusFiles(r, path, outcome.ignored)

\* NoChanges letting an empty list of changed files through
NoChangesNever(changedFiles) == FALSE

\* changedFiles.length === 0
NoChanges(changedFiles) == Len(changedFiles) = 0

\* step 7, first await: gitManager.getChangedFiles; an empty list is thrown
\* as 'No changes were made'. git cannot run in a directory that is gone
getChangedFiles(e, outcome) ==
  /\ e \in DOMAIN runs
  /\ runs[e].pc = "diff"
  /\ LET path == WorktreePath(runs[e].request.branchName)
     IN /\ ~Exists(repo, path) => outcome.throws
        /\ IF ~outcome.throws /\ ~NoChanges(ChangedFiles(repo, path, outcome))
           THEN /\ runs' = [runs EXCEPT ![e].pc = "commit"]
                /\ UNCHANGED executions
           ELSE /\ runs' = [runs EXCEPT ![e] =
                              Caught(@, IF outcome.throws
                                        THEN "git status failed"
                                        ELSE "No changes were made")]
                /\ executions' = Failed(executions, e)
  /\ UNCHANGED <<reply, repo>>
  /\ UNCHANGED <<storeVars, toolVars>>

\* step 7, second await: gitManager.commit, which adds a commit to the
\* branch checked out in the worktree
commit(e, outcome) ==
  /\ e \in DOMAIN runs
  /\ runs[e].pc = "commit"
  /\ LET run == [runs[e] EXCEPT !.commits = @ + 1]
         branchName == runs[e].request.branchName
         path == WorktreePath(branchName)
     IN /\ ~Exists(repo, path) => outcome = "throws"
        /\ IF outcome = "ok"
           THEN /\ runs' = [runs EXCEPT ![e] = [run EXCEPT !.pc = "push"]]
                /\ repo' = IF IsWorktree(repo, path)
                           THEN [repo EXCEPT !.branches[branchName].ahead = 1]
                           ELSE repo
                /\ UNCHANGED executions
           ELSE /\ runs' = [runs EXCEPT ![e] = Caught(run, "commit failed")]
                /\ executions' = Failed(executions, e)
                /\ UNCHANGED repo
  /\ UNCHANGED reply
  /\ UNCHANGED <<storeVars, toolVars>>

\* step 8: await gitManager.push; then step 9 when there is a callbackUrl
push(e, outcome) ==
  /\ e \in DOMAIN runs
  /\ runs[e].pc = "push"
  /\ ~Exists(repo, WorktreePath(runs[e].request.branchName)) =>
        outcome = "throws"
  /\ LET run == [runs[e] EXCEPT !.pushes = @ + 1]
     IN IF outcome = "ok"
        THEN /\ runs' = [runs EXCEPT ![e] =
                           [run EXCEPT !.pc = IF run.request.callbackUrl # ""
                                              THEN "notify" ELSE "cleanup"]]
             /\ UNCHANGED executions
        ELSE /\ runs' = [runs EXCEPT ![e] = Caught(run, "push failed")]
             /\ executions' = Failed(executions, e)
  /\ UNCHANGED <<reply, repo>>
  /\ UNCHANGED <<storeVars, toolVars>>

\* what notifyCallback writes with console.error for the outcome of its fetch
CallbackLog(outcome) ==
  IF outcome = "throws" THEN "Failed to notify callback:"
  ELSE IF outcome = "rejected" THEN "Callback failed: "
  ELSE None

\* notifyCallback throwing when the response is not ok
notifyCallbackThrowsNotOk(outcome) == outcome = "rejected"

\* notifyCallback without its try/catch: a thrown fetch reaches the caller
notifyCallbackRethrows(outcome) == outcome = "throws"

\* notifyCallback lets what its fetch does reach its caller: never, its
\* try/catch logs a thrown fetch and a non-ok response alike
notifyCallbackThrows(outcome) == FALSE

\* GitManager.deleteWorktree lets a failed removal reach its caller: never,
\* the failure is logged
deleteWorktreeThrows(outcome) == FALSE

\* step 9: await notifyCallback with the success result
notifySuccess(e, outcome) ==
  /\ e \in DOMAIN runs
  /\ runs[e].pc = "notify"
  /\ LET run == [runs[e] EXCEPT
                  !.delivered = Append(@, SuccessResult(runs[e].request)),
                  !.logged = CallbackLog(outcome)]
     IN IF notifyCallbackThrows(outcome)
        THEN /\ runs' = [runs EXCEPT ![e] = Caught(run, "callback failed")]
             /\ executions' = Failed(executions, e)
        ELSE /\ runs' = [runs EXCEPT ![e] = [run EXCEPT !.pc = "cleanup"]]
             /\ UNCHANGED executions
  /\ UNCHANGED <<reply, repo>>
  /\ UNCHANGED <<storeVars, toolVars>>

\* await gitManager.deleteWorktree; then status 'completed' and the success
\* result is returned
deleteWorktree(e, outcome) ==
  /\ e \in DOMAIN runs
  /\ runs[e].pc = "cleanup"
  /\ repo' = IF outcome = "ok"
             THEN WorktreeRemove(repo, WorktreePath(runs[e].request.branchName))
             ELSE repo
  /\ LET run == [runs[e] EXCEPT !.deleted = TRUE]
     IN IF deleteWorktreeThrows(outcome)
        THEN /\ runs' = [runs EXCEPT ![e] = Caught(run, "worktree remove failed")]
             /\ executions' = Failed(executions, e)
        ELSE /\ runs' = [runs EXCEPT ![e] =
                           Returned(run, SuccessResult(run.request))]
             /\ executions' = [executions EXCEPT ![e].status = "completed",
                                                 ![e].completedAt = Now]
  /\ UNCHANGED reply
  /\ UNCHANGED <<storeVars, toolVars>>

\* the catch block after its await of notifyCallback: the failure result was
\* handed to fetch and is returned; an error leaving notifyCallback would
\* reject the promise of execute()
notifyFailure(e, outcome) ==
  /\ e \in DOMAIN runs
  /\ runs[e].pc = "catch-notify"
  /\ LET result == FailureResult(runs[e].request, runs[e].error)
         run == [runs[e] EXCEPT !.delivered = Append(@, result),
                                !.logged = CallbackLog(outcome)]
     IN runs' = [runs EXCEPT ![e] =
                   IF notifyCallbackThrows(outcome)
                   THEN [run EXCEPT !.pc = "rejected"]
                   ELSE Returned(run, result)]
  /\ UNCHANGED <<executions, reply, repo>>
  /\ UNCHANGED <<storeVars, toolVars>>

\* agent.getStatus(executionId) on the map: <<state>>, or <<>> for null
getStatus(map, executionId) ==
  IF executionId \in DOMAIN map THEN <<map[executionId]>> ELSE <<>>

\* GET /status/:executionId: 404 for null, else 200 with the state that
\* getStatus returned as the body (the reply keeps the code and the id)
handleStatus(executionId) ==
  /\ LET status == getStatus(executions, executionId)
     IN reply' = [op |-> "status", id |-> executionId,
                  code |-> IF status = <<>> THEN 404 ELSE 200]
  /\ UNCHANGED <<executions, runs, repo>>
  /\ UNCHANGED <<storeVars, toolVars>>

\* cancel() that marks the execution without stamping completedAt
cancelWithoutTime(map, executionId) ==
  IF executionId \in DOMAIN map
  THEN [map EXCEPT ![executionId].status = "cancelled"]
  ELSE map

\* the map after agent.cancel(executionId): a known execution is marked
\* cancelled
cancel(map, executionId) ==
  IF executionId \in DOMAIN map
  THEN [map EXCEPT ![executionId].status = "cancelled",
                   ![executionId].completedAt = Now]
  ELSE map

\* POST /cancel/:executionId: agent.cancel, which also calls deleteWorktree
\* when the execution's worktreePath is set (outcome: what the removal
\* command does); a failed removal is logged and the answer is ok either way
handleCancel(executionId, outcome) ==
  /\ executions' = cancel(executions, executionId)
  /\ IF executionId \in DOMAIN executions
        /\ executions[executionId].worktreePath # None
     THEN /\ runs' = IF executionId \in DOMAIN runs
                     THEN [runs EXCEPT ![executionId].deleted = TRUE]
                     ELSE runs
          /\ repo' = IF outcome = "ok"
                     THEN WorktreeRemove(repo, executions[executionId].worktreePath)
                     ELSE repo
     ELSE /\ outcome = "ok"
          /\ UNCHANGED <<runs, repo>>
  /\ reply' = [op |-> "cancel", id |-> executionId,
               code |-> IF deleteWorktreeThrows(outcome) THEN 500 ELSE 200]
  /\ UNCHANGED <<storeVars, toolVars>>

\* the createWorktree runs of this specification: one remote tip, and the
\* failure of git worktree add
AgentWorktreeRuns ==
  {gitRun \in WorktreeRuns : gitRun.mkdir = "ok" /\ gitRun.fetch = "c1"}

\* the gate runs of this specification: lint, which never changes the
\* verdict, succeeds, and one run stands for a project without package.json
AgentGateRuns ==
  {env \in GateRuns :
     /\ env.lint = "ok"
     /\ env.packageJson \/ (env.typecheck = "ok" /\ env.tests.exit = "zero")}

\* the agent runs of this specification: a run that fails leaves no file
AgentEdits(claudeResult) == IF claudeResult.success THEN BOOLEAN ELSE {FALSE}

\* a further execution may start: fewer than MaxExecutions were started and
\* every execute() call has left (this specification runs the executions
\* one after another; SpecWorktree overlaps them)
MayStart ==
  /\ Cardinality(DOMAIN executions) < MaxExecutions
  /\ \A e \in DOMAIN runs : runs[e].pc \in {"returned", "rejected"}

NextAgent ==
  \/ \E request \in Requests :
        /\ HasRequiredFields(request) => MayStart
        /\ handleExecute(request)
  \/ \E e \in ExecIds, outcome \in StepOutcomes :
        \/ cloneIfNeeded(e, outcome)
        \/ installDependencies(e, outcome)
        \/ \E progressFile \in AgentProgressFiles :
              generatePromptFile(e, outcome, progressFile)
        \/ commit(e, outcome)
        \/ push(e, outcome)
        \/ deleteWorktree(e, outcome)
  \/ \E e \in ExecIds, gitRun \in AgentWorktreeRuns : createWorktree(e, gitRun)
  \/ \E e \in ExecIds, process \in ProcessRuns :
        \E edits \in AgentEdits(ClaudeRunnerRun(process)) :
           claudeRun(e, ClaudeRunnerRun(process), edits)
  \/ \E e \in ExecIds, env \in AgentGateRuns : qualityGate(e, env)
  \/ \E e \in ExecIds, outcome \in DiffOutcomes : getChangedFiles(e, outcome)
  \/ \E e \in ExecIds, outcome \in FetchOutcomes :
        notifySuccess(e, outcome) \/ notifyFailure(e, outcome)
  \/ \E executionId \in ExecIds : handleStatus(executionId)
  \/ \E executionId \in ExecIds, outcome \in StepOutcomes :
        handleCancel(executionId, outcome)

\* the execution server and its agent
SpecAgent == Init /\ [][NextAgent]_vars

\* the inputs of the specification of overlapping executions: requests for
\* one task and branch, every run of createWorktree, and of the later steps
\* a run that succeeds and the failures a missing directory forces
WorktreeRequests ==
  {request \in Requests :
     HasRequiredFields(request) /\ request.branchName = "task/t1"}
WorktreeClaudeResults == {r \in ClaudeResults : r.completed}
WorktreeGateRuns ==
  {env \in GateRuns :
     /\ env.lint = "ok" /\ env.typecheck = "ok" /\ env.tests.exit = "zero"}
WorktreeDiffOutcomes ==
  {outcome \in DiffOutcomes : outcome.throws \/ outcome.ignored = {InstallDir}}

NextWorktree ==
  \/ \E request \in WorktreeRequests : handleExecute(request)
  \/ \E e \in ExecIds, outcome \in StepOutcomes :
        \/ cloneIfNeeded(e, outcome)
        \/ installDependencies(e, outcome)
        \/ \E progressFile \in AgentProgressFiles :
              generatePromptFile(e, outcome, progressFile)
        \/ commit(e, outcome)
        \/ push(e, outcome)
        \/ deleteWorktree(e, outcome)
  \/ \E e \in ExecIds, gitRun \in WorktreeRuns : createWorktree(e, gitRun)
  \/ \E e \in ExecIds, claudeResult \in WorktreeClaudeResults :
        claudeRun(e, claudeResult, claudeResult.success)
  \/ \E e \in ExecIds, env \in WorktreeGateRuns : qualityGate(e, env)
  \/ \E e \in ExecIds, outcome \in WorktreeDiffOutcomes :
        getChangedFiles(e, outcome)
  \/ \E e \in ExecIds, outcome \in FetchOutcomes :
        notifySuccess(e, outcome) \/ notifyFailure(e, outcome)

\* executions of the same task and branch that overlap
SpecWorktree == Init /\ [][NextWorktree]_vars

\* the inputs of the specification of the store and the agent together: one
\* task, results that succeeded, one time, requests that pass the
\* validation, and every content of progress.txt
LearningsTasks == {task \in Tasks : task.id = "T1"}
LearningsResults == {r \in Results : r.success}
LearningsRequests == {request \in Requests : HasRequiredFields(request)}

NextLearnings ==
  \/ \E task \in LearningsTasks :
        Within(MaxVersion, <<>>) /\ handleEnqueue(task)
  \/ \E taskId \in TaskIds, result \in LearningsResults, t \in DispatchTimes :
        Within(MaxVersion, LearningsOf(result))
          /\ handleComplete(taskId, result, t)
  \/ \E request \in LearningsRequests : MayStart /\ handleExecute(request)
  \/ \E e \in ExecIds, outcome \in StepOutcomes :
        \/ cloneIfNeeded(e, outcome)
        \/ installDependencies(e, outcome)
        \/ \E progressFile \in ProgressFiles :
              generatePromptFile(e, outcome, progressFile)
        \/ commit(e, outcome)
        \/ push(e, outcome)
        \/ deleteWorktree(e, outcome)
  \/ \E e \in ExecIds, gitRun \in AgentWorktreeRuns : createWorktree(e, gitRun)
  \/ \E e \in ExecIds, claudeResult \in WorktreeClaudeResults :
        claudeRun(e, claudeResult, claudeResult.success)
  \/ \E e \in ExecIds, env \in WorktreeGateRuns : qualityGate(e, env)
  \/ \E e \in ExecIds, outcome \in WorktreeDiffOutcomes :
        getChangedFiles(e, outcome)
  \/ \E e \in ExecIds, outcome \in FetchOutcomes :
        notifySuccess(e, outcome) \/ notifyFailure(e, outcome)

\* the store recording results while the agent runs executions
SpecLearnings == Init /\ [][NextLearnings]_vars

\* ----------------------------------------------------------------------
\* Properties
\* ----------------------------------------------------------------------
\* the ledger a handler reads, and its entries
Ledger == getPRD(storage)
Entries == Ledger.tasks

\* some entry has passes=false and attempts<3
HasEligible(tasks) ==
  \E t \in DOMAIN tasks : ~tasks[t].passes /\ tasks[t].attempts < 3

\* the entry has passes=false and attempts>=3
IsExhausted(tasks, t) ==
  t \in DOMAIN tasks /\ ~tasks[t].passes /\ tasks[t].attempts >= 3

\* the alarm handler has returned: by finding nothing, or after its fetch
AlarmEnds ==
  \/ AlarmSelect /\ alarmRun'.pc = "idle"
  \/ \E outcome \in FetchOutcomes : AlarmReturn(outcome)

\* C1: whenever alarm() issues an ExecutionRequest for a task, no earlier
\* request for that task is still waiting for a complete or fail to be
\* processed by the store.
C1_AtMostOneOutstanding ==
  [][AlarmFetch => ~outstanding[alarmRun.taskId]]_vars

\* C2: a firing of alarm() that finds an eligible entry increments the attempts
\* of exactly one entry by one and stores that before any request is issued;
\* it then issues exactly one request, for that entry, and the stored
\* increment stays whatever the fetch does. A firing that finds no eligible
\* entry issues no request and changes no entry.
C2_DispatchOncePerFiring ==
  [][/\ AlarmSelect =>
          /\ sent' = sent
          /\ IF HasEligible(Entries)
             THEN /\ \E t \in DOMAIN Entries :
                       /\ ~Entries[t].passes /\ Entries[t].attempts < 3
                       /\ Entries' = [Entries EXCEPT ![t].attempts = @ + 1]
                       /\ alarmRun' = [pc |-> "persisted", taskId |-> t]
             ELSE /\ Entries' = Entries
                  /\ alarmRun'.pc = "idle"
     /\ AlarmFetch =>
          /\ storage' = storage
          /\ sent' = [sent EXCEPT ![alarmRun.taskId] = @ + 1]
          /\ alarmRun'.pc = "awaiting"
     /\ (\E outcome \in FetchOutcomes : AlarmReturn(outcome)) =>
          /\ storage' = storage
          /\ sent' = sent
          /\ alarmRun'.pc = "idle"
    ]_vars

\* C2 witness: the increment of T1 is stored and its request is not issued yet
C2_Witness ==
  /\ alarmRun = [pc |-> "persisted", taskId |-> "T1"]
  /\ Entries["T1"].attempts = 1
  /\ sent["T1"] = 0

\* C3: when a firing of alarm() ends and an entry with passes=false and
\* attempts<3 remains, an alarm is set again.
C3_RearmsWhileEligible ==
  [][(AlarmEnds /\ HasEligible(Entries')) => alarmSet']_vars

\* C4: at most 3 ExecutionRequests are issued for a task between two of its
\* enqueues, and no step removes an entry from the ledger.
C4_RetryBudget ==
  [][/\ \A t \in TaskIds : sent'[t] <= 3
     /\ DOMAIN Entries \subseteq DOMAIN Entries'
    ]_vars

\* C4 witness: T1 was dispatched three times, stays recorded, and a later
\* firing dispatched T2 instead
C4_Witness ==
  /\ sent["T1"] = 3
  /\ "T1" \in DOMAIN Entries
  /\ Entries["T1"].attempts >= 3
  /\ sent["T2"] = 1

\* C5: neither /get-next-task nor alarm() selects an entry that has
\* passes=false and attempts>=3, or that had since its last enqueue.
C5_ExhaustedNeverSelected ==
  [][/\ (handleGetNextTask /\ response'.taskId # Null) =>
          /\ ~IsExhausted(Entries, response'.taskId)
          /\ ~exhausted[response'.taskId]
     /\ (AlarmSelect /\ alarmRun'.taskId # Null) =>
          /\ ~IsExhausted(Entries, alarmRun'.taskId)
          /\ ~exhausted[alarmRun'.taskId]
    ]_vars

\* C5 witness: T1, first in the ledger, was exhausted and /get-next-task
\* answered with another task
C5_Witness ==
  /\ exhausted["T1"]
  /\ Ledger.keys[1] = "T1"
  /\ response = [op |-> "get-next-task", status |-> 200, taskId |-> "T2"]

\* C6: once /complete has set passes=true for an entry, neither /get-next-task
\* nor alarm() selects it until it is enqueued again.
C6_PassedIsTerminal ==
  [][/\ (handleGetNextTask /\ response'.taskId # Null) =>
          ~passed[response'.taskId]
     /\ (AlarmSelect /\ alarmRun'.taskId # Null) =>
          ~passed[alarmRun'.taskId]
    ]_vars

\* C7: /enqueue leaves the task's entry fresh (passes=false, attempts=0, no
\* prUrl, lastAttemptAt or error), leaves the other entries as they were,
\* raises version by one and sets the alarm; enqueuing the same task once more
\* would leave the same entries.
C7_EnqueueOverwrites ==
  [][\A task \in Tasks : handleEnqueue(task) =>
       /\ DOMAIN Entries' = DOMAIN Entries \cup {task.id}
       /\ Entries'[task.id] =
            [description |-> task.description, branchName |-> task.branch,
             passes |-> FALSE, attempts |-> 0,
             prUrl |-> None, lastAttemptAt |-> NoTime, error |-> None]
       /\ \A t \in DOMAIN Entries \ {task.id} : Entries'[t] = Entries[t]
       /\ Ledger'.version = Ledger.version + 1
       /\ alarmSet'
       /\ EnqueuePRD(Ledger', task).tasks = Entries'
       /\ EnqueuePRD(Ledger', task).keys = Ledger'.keys
    ]_vars

\* C7 witness: T1 was enqueued again after a request for it had been issued,
\* next to an entry for T2
C7_Witness ==
  /\ response = [op |-> "enqueue", status |-> 200, taskId |-> "T1"]
  /\ outstanding["T1"]
  /\ Ledger.version >= 4
  /\ Entries["T1"].attempts = 0
  /\ Entries["T1"].error = None
  /\ "T2" \in DOMAIN Entries

\* C8: the attempts of an entry never go down, except to 0 by an enqueue of
\* the same task id.
C8_AttemptsMonotone ==
  [][\A t \in DOMAIN Entries :
       /\ t \in DOMAIN Entries'
       /\ (Entries'[t].attempts < Entries[t].attempts) =>
            /\ Entries'[t].attempts = 0
            /\ \E task \in Tasks : task.id = t /\ handleEnqueue(task)
    ]_vars

\* C8 witness: T1 took a dispatch and a /fail and then a /complete
C8_Witness ==
  /\ "T1" \in DOMAIN Entries
  /\ Entries["T1"].attempts = 2
  /\ sent["T1"] = 1
  /\ response = [op |-> "complete", status |-> 200, taskId |-> "T1"]

\* C9: the attempts of an entry equal the number of ExecutionRequests issued
\* for it since its last enqueue (counting a stored increment whose request
\* is about to be issued).
C9_AttemptsEqualDispatches ==
  \A t \in DOMAIN Entries :
    Entries[t].attempts =
      sent[t] + (IF alarmRun = [pc |-> "persisted", taskId |-> t] THEN 1 ELSE 0)

\* the handler that ran in this step answered with this op, status and task
Answered(op, status, taskId) ==
  response' = [op |-> op, status |-> status, taskId |-> taskId]

\* C10: /fail for a task of the ledger sets passes=false, error and
\* lastAttemptAt, adds one to the entry's attempts and to version, and leaves
\* the other entries and the progress log as they were.
C10_FailEffect ==
  [][\A taskId \in TaskIds, error \in Errors, t \in Times :
       (handleFail(taskId, error, t) /\ taskId \in DOMAIN Entries) =>
         /\ Entries' =
              [Entries EXCEPT ![taskId] =
                 [@ EXCEPT !.passes = FALSE, !.error = error,
                           !.lastAttemptAt = t, !.attempts = @ + 1]]
         /\ Ledger'.keys = Ledger.keys
         /\ Ledger'.version = Ledger.version + 1
         /\ storage'.progress = storage.progress
    ]_vars

\* C10 witness: a /fail for T1 was processed next to an entry for T2 and a
\* non-empty progress log
C10_Witness ==
  /\ response = [op |-> "fail", status |-> 200, taskId |-> "T1"]
  /\ Entries["T1"].attempts = 1
  /\ Entries["T1"].error = "e2"
  /\ Entries["T1"].lastAttemptAt = 1
  /\ "T2" \in DOMAIN Entries
  /\ storage.progress # <<>>

\* C11: /complete for a task of the ledger sets the entry's passes, prUrl and
\* lastAttemptAt from the result, and leaves the entry's attempts, every other
\* entry and the dispatch timer as they were; after a result with
\* success=false an entry with attempts below the limit is eligible.
C11_CompleteEffect ==
  [][\A taskId \in TaskIds, result \in Results, t \in Times :
       (/\ taskId \in DOMAIN Entries
        /\ Answered("complete", 200, taskId)
        /\ handleComplete(taskId, result, t)) =>
         /\ Entries' =
              [Entries EXCEPT ![taskId] =
                 [@ EXCEPT !.passes = result.success, !.prUrl = result.prUrl,
                           !.lastAttemptAt = t]]
         /\ Ledger'.keys = Ledger.keys
         /\ alarmSet' = alarmSet
         /\ alarmRun' = alarmRun
         /\ (~result.success /\ Entries[taskId].attempts < MaxAttempts) =>
              /\ IsEligible(Entries'[taskId])
              /\ Entries'[taskId].attempts = Entries[taskId].attempts
    ]_vars

\* C11 witness: a /complete with success=false was processed for T1 after one
\* dispatch, next to an entry for T2 and with the timer armed
C11_Witness ==
  /\ response = [op |-> "complete", status |-> 200, taskId |-> "T1"]
  /\ Entries["T1"].attempts = 1
  /\ ~Entries["T1"].passes
  /\ Entries["T1"].lastAttemptAt = 1
  /\ "T2" \in DOMAIN Entries
  /\ alarmSet

\* C12: /complete with a non-empty learnings list appends exactly one entry
\* to the progress log, and the entry contains every learning of the result;
\* with an empty or a missing learnings list the progress log is unchanged.
C12_CompleteLearnings ==
  [][\A taskId \in TaskIds, result \in Results, t \in Times :
       (/\ taskId \in DOMAIN Entries
        /\ Answered("complete", 200, taskId)
        /\ handleComplete(taskId, result, t)) =>
         IF "learnings" \in DOMAIN result /\ result.learnings # <<>>
         THEN /\ Len(storage'.progress) = Len(storage.progress) + 1
              /\ SubSeq(storage'.progress, 1, Len(storage.progress))
                   = storage.progress
              /\ \A i \in 1..Len(result.learnings) :
                   Contains(storage'.progress[Len(storage'.progress)],
                            "- " \o result.learnings[i] \o "\n")
         ELSE storage'.progress = storage.progress
    ]_vars

\* C12 witness: a /complete with two learnings was processed for T1
C12_Witness ==
  /\ response = [op |-> "complete", status |-> 200, taskId |-> "T1"]
  /\ Len(storage.progress) = 1
  /\ Contains(storage.progress[1], "## 1 - T1\nd1\n")
  /\ Contains(storage.progress[1], "- x\n- y\n")

\* C13: /complete and /fail for a task id that is not in the ledger answer
\* 404 and leave every entry, the version and the progress log as they were.
C13_UnknownTaskIs404 ==
  [][/\ \A taskId \in TaskIds, result \in Results, t \in Times :
          (/\ taskId \notin DOMAIN Entries
           /\ response'.op = "complete"
           /\ handleComplete(taskId, result, t)) =>
            /\ response'.status = 404
            /\ Ledger' = Ledger
            /\ storage'.progress = storage.progress
     /\ \A taskId \in TaskIds, error \in Errors, t \in Times :
          (/\ taskId \notin DOMAIN Entries
           /\ response'.op = "fail"
           /\ handleFail(taskId, error, t)) =>
            /\ response'.status = 404
            /\ Ledger' = Ledger
            /\ storage'.progress = storage.progress
    ]_vars

\* C13 witness: a /fail for T2 was answered 404 by a store that holds an
\* entry for T1 and a progress log
C13_Witness ==
  /\ response = [op |-> "fail", status |-> 404, taskId |-> "T2"]
  /\ DOMAIN Entries = {"T1"}
  /\ Ledger.version > 1
  /\ storage.progress # <<>>

\* C14: every mutation of the ledger (an enqueue, a /complete, a /fail, the
\* attempts increment of a dispatch) strictly increases version, version
\* never decreases, and two persisted ledgers with the same version have the
\* same entries.
C14_VersionOnEveryMutation ==
  [][/\ Ledger'.version >= Ledger.version
     /\ (Entries' # Entries) => Ledger'.version > Ledger.version
     /\ (storage.prd # <<>> /\ storage'.prd # <<>>
           /\ Ledger'.version = Ledger.version) => Entries' = Entries
    ]_vars

\* C15: every execute(request) with a callbackUrl has, when it returns,
\* attempted exactly one delivery of an ExecutionResult, and the delivered
\* result is the returned one: on the success path, after a failed quality
\* gate (the failure reasons in error) and after any exception.
C15_OneDeliveryPerExecute ==
  \A e \in DOMAIN runs :
    (runs[e].pc = "returned" /\ runs[e].request.callbackUrl # "") =>
      /\ Len(runs[e].delivered) = 1
      /\ runs[e].delivered = runs[e].result

\* the steps of execute() up to and including the quality gate
BeforeGate == {"clone", "worktree", "install", "prompt", "claude", "gate"}

\* C16: commit and push are invoked only after runAll() returned
\* typecheck=true and tests=true: none is invoked up to the gate, a gate
\* with either verdict false returns success=false with testsPass and
\* typecheckPass equal to the verdict and no commit or push follows, and the
\* outcome of lint changes nothing of this.
C16_GateGuardsCommitAndPush ==
  [][/\ \A e \in DOMAIN runs \cap DOMAIN runs' :
          /\ runs[e].pc \in BeforeGate =>
               runs[e].commits = 0 /\ runs[e].pushes = 0
          /\ runs[e].pc = "returned" =>
               /\ runs'[e].commits = runs[e].commits
               /\ runs'[e].pushes = runs[e].pushes
     /\ \A e \in {x \in DOMAIN runs : runs[x].pc = "gate" /\ runs'[x].pc # "gate"} :
        \A env \in AgentGateRuns :
          qualityGate(e, env) =>
            LET q == Verdicts[env]
            IN /\ IF q.typecheck /\ q.tests
                  THEN runs'[e].pc = "diff"
                  ELSE /\ runs'[e].pc = "returned"
                       /\ runs'[e].commits = 0
                       /\ runs'[e].pushes = 0
                       /\ ~runs'[e].result[1].success
                       /\ runs'[e].result[1].testsPass = q.tests
                       /\ runs'[e].result[1].typecheckPass = q.typecheck
               /\ \A lint \in LintRuns :
                    qualityGate(e, [env EXCEPT !.lint = lint])
    ]_vars

\* C16 witness: a run whose gate found the tests failing and the typecheck
\* passing has returned, with no commit and no push
C16_Witness ==
  \E e \in DOMAIN runs :
    /\ runs[e].pc = "returned"
    /\ runs[e].result[1].typecheckPass
    /\ ~runs[e].result[1].testsPass
    /\ runs[e].result[1].error =
         "Quality checks failed: Tests failed: Command failed: npm test\n1 failing"
    /\ runs[e].commits = 0
    /\ runs[e].pushes = 0

\* the message thrown for an empty list of changed files
NoChangesMessage == "No changes were made"

\* C17: when the agent succeeded, the gate passed and getChangedFiles()
\* returns no file, execute() returns success=false with an error that says
\* no changes were made, delivers that result to the callbackUrl when there
\* is one, and invokes neither commit nor push.
C17_NoDiffFails ==
  [][\A e \in DOMAIN runs \cap DOMAIN runs' :
       /\ \A outcome \in DiffOutcomes :
            (/\ e \in DOMAIN runs
             /\ runs[e].pc = "diff"
             /\ ~outcome.throws
             /\ StatusFiles(repo, WorktreePath(runs[e].request.branchName),
                            outcome.ignored) = <<>>
             /\ getChangedFiles(e, outcome)) =>
               /\ runs'[e].error = NoChangesMessage
               /\ runs'[e].pc = IF runs[e].request.callbackUrl # ""
                                THEN "catch-notify" ELSE "returned"
       /\ (e \in DOMAIN runs /\ runs[e].error = NoChangesMessage) =>
            /\ runs'[e].commits = 0
            /\ runs'[e].pushes = 0
            /\ runs'[e].pc \in {"catch-notify", "returned"}
       /\ (e \in DOMAIN runs' /\ runs'[e].error = NoChangesMessage
             /\ runs'[e].pc = "returned") =>
            /\ Len(runs'[e].result) = 1
            /\ ~runs'[e].result[1].success
            /\ Contains(runs'[e].result[1].error, "No changes")
            /\ runs'[e].commits = 0
            /\ runs'[e].pushes = 0
            /\ runs'[e].request.callbackUrl # "" =>
                 runs'[e].delivered = runs'[e].result
    ]_vars

\* C17 witness: a run with a callbackUrl found no changed file, delivered
\* the failure and returned it
C17_Witness ==
  \E e \in DOMAIN runs :
    /\ runs[e].pc = "returned"
    /\ runs[e].request.callbackUrl = "cb"
    /\ runs[e].result[1].error = "No changes were made"
    /\ Len(runs[e].delivered) = 1
    /\ ~runs[e].delivered[1].success
    /\ executions[e].status = "failed"

\* the run e leaves execute() in this step, with a result or an exception
Leaves(e) ==
  /\ e \in DOMAIN runs
  /\ runs[e].pc \notin {"returned", "rejected"}
  /\ runs'[e].pc \in {"returned", "rejected"}

\* whatever a step of execute() does, the call goes on, waits in the catch
\* block or returns a result; a failed callback delivery and a failed
\* worktree deletion do not fail the call
ExceptionsAreCaught(e) ==
  /\ e \in DOMAIN runs' => runs'[e].pc # "rejected"
  /\ Leaves(e) => Len(runs'[e].result) = 1
  /\ \A outcome \in FetchOutcomes :
       notifySuccess(e, outcome) => runs'[e].pc = "cleanup"
  /\ \A outcome \in StepOutcomes :
       deleteWorktree(e, outcome) =>
         runs'[e].pc = "returned" /\ runs'[e].result[1].success
  /\ (Leaves(e) /\ runs[e].pc \notin {"cleanup", "gate"}) =>
       /\ ~runs'[e].result[1].success
       /\ runs'[e].error # None
       /\ runs'[e].result[1].error = runs'[e].error
  /\ (Leaves(e) /\ runs[e].pc = "gate") =>
       /\ ~runs'[e].result[1].success
       /\ runs'[e].result[1].error # None

\* C18 as stated: no exception escapes execute(): a failure at any step
\* resolves the call with an ExecutionResult, and for a failure before the
\* success callback the result has success=false with the error message and
\* the in-memory status is 'failed' when the call returns.
C18_NoExceptionEscapes ==
  [][\A e \in DOMAIN runs \cap DOMAIN runs' :
       /\ ExceptionsAreCaught(e)
       /\ (Leaves(e) /\ ~runs'[e].result[1].success) =>
            executions'[e].status = "failed"
    ]_vars

\* C18 amended: as above, but the in-memory status at the return is the
\* 'failed' the failing step set unless cancel() marked the execution
\* cancelled while the catch block awaited the callback.
C18_NoExceptionEscapesUnlessCancelled ==
  [][\A e \in DOMAIN runs \cap DOMAIN runs' :
       /\ ExceptionsAreCaught(e)
       /\ (e \in DOMAIN runs /\ runs[e].pc # "catch-notify"
             /\ runs'[e].pc \in {"catch-notify", "returned"}
             /\ runs'[e].pc # runs[e].pc
             /\ (runs'[e].pc = "returned" => ~runs'[e].result[1].success)) =>
            executions'[e].status = "failed"
       /\ (Leaves(e) /\ runs[e].pc = "catch-notify") =>
            /\ executions'[e].status = executions[e].status
            /\ executions'[e].status \in {"failed", "cancelled"}
    ]_vars

\* C18 witness: the push of a run threw after its commit; the call returned
\* the failure, delivered it, and the status is 'failed'
C18_Witness ==
  \E e \in DOMAIN runs :
    /\ runs[e].pc = "returned"
    /\ runs[e].result[1].error = "push failed"
    /\ runs[e].delivered = runs[e].result
    /\ runs[e].commits = 1
    /\ runs[e].pushes = 1
    /\ executions[e].status = "failed"

\* C19: the worktree is deleted on every exit path: whenever execute() has
\* returned after createWorktree succeeded, deleteWorktree has been invoked
\* for its worktree, be it after success, a failed quality gate or an
\* exception at a later step.
C19_WorktreeDeletedOnEveryExit ==
  \A e \in DOMAIN runs :
    (runs[e].pc = "returned" /\ runs[e].created) => runs[e].deleted

\* C20: the executionId that POST /execute returns identifies the execution
\* it started: GET /status/<id> finds that execution's ExecutionState (same
\* taskId), and POST /cancel/<id> marks that execution cancelled.
C20_ReturnedIdIsTheExecution ==
  [][\A request \in Requests :
       (handleExecute(request) /\ HasRequiredFields(request)) =>
         LET id == reply'.executionId
             started == DOMAIN executions' \ DOMAIN executions
         IN /\ id \in started
            /\ getStatus(executions', id) # <<>>
            /\ getStatus(executions', id)[1].taskId = request.taskId
            /\ \A e \in started :
                 cancel(executions', id)[e].status = "cancelled"
    ]_vars

\* C21: POST /execute with a body that misses taskId, repoUrl, branchName or
\* prompt is answered 400 and starts nothing: no ExecutionState, no run and so
\* no pipeline step and no callback. A complete request is answered with an
\* executionId while its run is at its first step, and no later step of a
\* run changes the answer.
C21_ExecuteValidates ==
  [][/\ \A request \in Requests :
          handleExecute(request) =>
            IF \/ request.taskId = ""
               \/ request.repoUrl = ""
               \/ request.branchName = ""
               \/ request.prompt = ""
            THEN /\ reply' = [op |-> "execute", code |-> 400]
                 /\ executions' = executions
                 /\ runs' = runs
            ELSE /\ reply'.code = 200
                 /\ reply'.executionId \in ExecIds
                 /\ reply'.taskId = request.taskId
                 /\ \E e \in DOMAIN runs' \ DOMAIN runs :
                      /\ DOMAIN runs' \ DOMAIN runs = {e}
                      /\ DOMAIN executions' = DOMAIN executions \cup {e}
                      /\ runs'[e].pc = "clone"
                      /\ runs'[e].result = <<>>
                      /\ runs'[e].delivered = <<>>
     /\ \A e \in DOMAIN runs \cap DOMAIN runs' :
          runs'[e].pc # runs[e].pc => reply' = reply
    ]_vars

\* C21 witness: a request without a prompt was answered 400 while an earlier
\* execution is known, and nothing else was started
C21_Witness ==
  /\ reply = [op |-> "execute", code |-> 400]
  /\ Cardinality(DOMAIN executions) = 1
  /\ DOMAIN runs = DOMAIN executions

\* C22: for a project with a manifest, runAll() returns tests=true when the
\* test command succeeds or no test script exists, and tests=false with an
\* entry in errors when the test command of an existing script exits
\* non-zero or runs into its timeout; the typecheck verdict does not change
\* the tests verdict.
C22_TestsVerdict ==
  [][\A e \in {x \in DOMAIN runs : runs[x].pc = "gate" /\ runs'[x].pc # "gate"} :
     \A env \in GateRuns :
       (qualityGate(e, env) /\ env.packageJson) =>
         LET q == runAll(env)
         IN /\ (env.tests.exit = "zero" \/ ~env.tests.script) => q.tests
            /\ (env.tests.script /\ env.tests.exit \in {"nonzero", "timeout"}) =>
                 ~q.tests /\ Len(q.errors) >= 1
            /\ \A typecheck \in StepOutcomes :
                 runAll([env EXCEPT !.typecheck = typecheck]).tests = q.tests
    ]_vars

\* C23: the handlers of the store never interleave on the ledger. Every step
\* that changes the persisted ledger or the progress log is one whole
\* operation (enqueue, complete, fail, update-progress, the initialising read
\* or the dispatch increment) applied to the state persisted just before it,
\* so the persisted state is always the result of a serial order; while
\* alarm() is between its put and its fetch nothing else runs, and once it
\* has persisted its increment it writes nothing more.
C23_HandlersAreSerial ==
  [][/\ storage' # storage =>
          \/ storage' = StoreInit(storage)
          \/ /\ alarmRun.pc = "idle" /\ alarmRun'.pc = "persisted"
             /\ FirstEligible(getPRD(storage)) # Null
             /\ storage' = putPRD(storage,
                   AlarmIncrement(getPRD(storage), FirstEligible(getPRD(storage))))
          \/ /\ alarmRun' = alarmRun
             /\ \/ \E task \in Tasks :
                     storage' = putPRD(storage, EnqueuePRD(getPRD(storage), task))
                \/ \E entry \in ProgressEntries :
                     storage' = appendProgress(storage, entry)
                \/ \E taskId \in DOMAIN getPRD(storage).tasks, t \in Times :
                     \/ \E result \in Results :
                          storage' = CompleteStorage(storage, taskId, result, t)
                     \/ \E error \in Errors :
                          storage' = putPRD(storage,
                                       FailPRD(getPRD(storage), taskId, error, t))
     /\ alarmRun.pc = "persisted" =>
          /\ storage' = storage
          /\ response' = response
     /\ (alarmRun.pc = "awaiting" /\ alarmRun'.pc = "idle") => storage' = storage
    ]_vars

\* /complete was handled while alarm() awaited its fetch for the same task
C23_Witness ==
  /\ alarmRun.pc = "awaiting"
  /\ response = [op |-> "complete", status |-> 200, taskId |-> alarmRun.taskId]
  /\ getPRD(storage).tasks[alarmRun.taskId].passes
  /\ getPRD(storage).tasks[alarmRun.taskId].attempts = 1
  /\ Len(getProgress(storage)) = 1

\* the execution holds a worktree: it is between its createWorktree and its
\* end
HoldsWorktree(e) ==
  /\ e \in DOMAIN runs
  /\ runs[e].created
  /\ runs[e].pc \in {"install", "prompt", "claude", "gate", "diff", "commit",
                     "push", "notify", "cleanup"}

\* C24: executions on the same repository serialize their worktree
\* operations: while one execution holds the worktree of a branch, no step
\* of another execution removes or creates the worktree at that path.
C24_WorktreeOpsSerialized ==
  [][\A e1 \in DOMAIN runs \cap DOMAIN runs', e2 \in DOMAIN runs \cap DOMAIN runs' :
       (/\ e1 # e2
        /\ HoldsWorktree(e1)
        /\ runs[e2].request.branchName = runs[e1].request.branchName
        /\ runs[e2].pc \in {"worktree", "cleanup"}
        /\ runs'[e2].pc # runs[e2].pc) =>
          /\ repo' = repo
          /\ runs'[e2].created = runs[e2].created
    ]_vars

\* C25: createWorktree called again for a branch whose worktree is in place
\* succeeds when its commands run, and leaves at the path a fresh checkout:
\* the branch reset to the tip of origin/<base> that was just fetched and
\* none of the files or commits of the earlier worktree.
C25_CreateWorktreeIdempotent ==
  [][\A e \in {x \in DOMAIN runs : runs[x].pc = "worktree"} :
     \A gitRun \in WorktreeRuns :
       LET branchName == runs[e].request.branchName
           path == WorktreePath(branchName)
       IN (/\ IsWorktree(repo, path)
           /\ gitRun.mkdir = "ok" /\ gitRun.fetch \in Tips /\ gitRun.add = "ok"
           /\ createWorktree(e, gitRun)) =>
             /\ runs'[e].pc = "install"
             /\ executions'[e].worktreePath = path
             /\ FilesAt(repo', path) = {GitFile}
             /\ repo'.branches[branchName] = [base |-> gitRun.fetch, ahead |-> 0]
    ]_vars

\* C25 witness: an execution committed in its worktree at tip c1, and a
\* second createWorktree for the branch then left a fresh checkout of c2
C25_Witness ==
  \E e1 \in DOMAIN runs, e2 \in DOMAIN runs :
    /\ e1 # e2
    /\ runs[e1].request.branchName = runs[e2].request.branchName
    /\ runs[e1].pc = "push" /\ runs[e1].commits = 1
    /\ runs[e2].pc = "install"
    /\ FilesAt(repo, WorktreePath(runs[e2].request.branchName)) = {GitFile}
    /\ repo.branches[runs[e2].request.branchName] = [base |-> "c2", ahead |-> 0]

\* the positions, in the iteration order of the ledger, of the entries with
\* passes=false and attempts below the limit
OpenPositions ==
  {i \in 1..Len(Ledger.keys) :
     /\ ~Entries[Ledger.keys[i]].passes
     /\ Entries[Ledger.keys[i]].attempts < MaxAttempts}

\* C26: /get-next-task answers with the first entry, in the iteration order
\* of the ledger, that has passes=false and attempts<3, or with none; and
\* alarm() dispatches exactly that entry: it selects no task when there is
\* none, and never a later entry while an earlier one is eligible.
C26_DispatchPicksFirstEligible ==
  [][/\ (response'.op = "get-next-task" /\ handleGetNextTask) =>
          IF OpenPositions = {}
          THEN response'.taskId = Null
          ELSE \E i \in OpenPositions :
                 /\ response'.taskId = Ledger.keys[i]
                 /\ \A j \in OpenPositions : i <= j
     /\ (alarmRun.pc = "idle" /\ alarmRun'.pc = "persisted") =>
          \E i \in OpenPositions :
             /\ alarmRun'.taskId = Ledger.keys[i]
             /\ \A j \in OpenPositions : i <= j
     /\ (alarmRun.pc = "idle" /\ alarmSet /\ ~alarmSet' /\ alarmRun'.pc = "idle") =>
          OpenPositions = {}
     /\ \A t \in TaskIds :
          sent'[t] > sent[t] => (alarmRun.pc = "persisted" /\ alarmRun.taskId = t)
    ]_vars

\* C26 witness: the first entry of the ledger has passed; /get-next-task
\* answered with the second entry and alarm() then selected it
C26_Witness ==
  /\ Len(Ledger.keys) = 2
  /\ Entries[Ledger.keys[1]].passes
  /\ response = [op |-> "get-next-task", status |-> 200,
                 taskId |-> Ledger.keys[2]]
  /\ alarmRun = [pc |-> "persisted", taskId |-> Ledger.keys[2]]

\* C27: when the coding agent changed no file in the worktree, where the
\* pipeline itself has written the installed dependencies and the prompt
\* file, the diff step ends the run with the no-changes error and neither
\* commit nor push is invoked.
C27_NoAgentChangeNoCommit ==
  [][\A e \in {x \in DOMAIN runs : runs[x].pc = "diff" /\ runs'[x].pc # "diff"} :
       LET path == WorktreePath(runs[e].request.branchName)
       IN (/\ IsWorktree(repo, path)
           /\ AgentFile \notin FilesAt(repo, path)
           /\ \E outcome \in DiffOutcomes :
                ~outcome.throws /\ getChangedFiles(e, outcome)) =>
             /\ runs'[e].error = NoChangesMessage
             /\ runs'[e].pc \in {"catch-notify", "returned"}
             /\ runs'[e].commits = 0
             /\ runs'[e].pushes = 0
    ]_vars

\* C28: every failure result carries what the quality gate had found when
\* the failure occurred: testsPass=true and typecheckPass=true for a failure
\* after the gate passed (no changes, commit error, push error), and the
\* gate's verdict for a failure of the gate.
C28_FailureKeepsGateVerdict ==
  [][\A e \in {x \in DOMAIN runs : runs[x].pc # "returned" /\ runs'[x].pc = "returned"} :
       LET result == runs'[e].result[1]
       IN ~result.success =>
            /\ runs'[e].error \in {NoChangesMessage, "commit failed", "push failed"} =>
                 result.testsPass /\ result.typecheckPass
            /\ runs[e].pc = "gate" =>
                 \E env \in GateRuns :
                    /\ qualityGate(e, env)
                    /\ result.testsPass = runAll(env).tests
                    /\ result.typecheckPass = runAll(env).typecheck
    ]_vars

\* the steps of execute() in their order
PipelineSteps ==
  <<"clone", "worktree", "install", "prompt", "claude", "gate", "diff",
    "commit", "push", "notify", "cleanup">>

\* b is the step that follows a
FollowsStep(a, b) ==
  \E i \in 1..(Len(PipelineSteps) - 1) :
     PipelineSteps[i] = a /\ PipelineSteps[i + 1] = b

\* C29: within one execute() the steps occur only in the order clone,
\* create worktree, install, prompt, agent, quality gate, diff, commit, push,
\* success callback, delete worktree (the callback is skipped without a
\* callbackUrl); a step that fails leads to the failure exit and no later
\* step is performed; each step is performed at its own position only, and
\* a success=true callback is delivered only after commit and push succeeded.
C29_PipelineOrder ==
  [][\A e \in DOMAIN runs \cap DOMAIN runs' :
       LET a == runs[e].pc
           b == runs'[e].pc
       IN /\ a # b =>
               \/ FollowsStep(a, b)
               \/ a = "push" /\ b = "cleanup" /\ runs[e].request.callbackUrl = ""
               \/ /\ a \in {"cleanup", "gate"} \/ runs[e].request.callbackUrl = ""
                  /\ b = "returned"
                  /\ runs'[e].result[1].success <=> a = "cleanup"
               \/ /\ a \notin {"cleanup", "catch-notify", "returned"}
                  /\ runs[e].request.callbackUrl # ""
                  /\ b = "catch-notify"
               \/ /\ a = "catch-notify" /\ b = "returned"
                  /\ ~runs'[e].result[1].success
          /\ runs'[e].created # runs[e].created => (a = "worktree" /\ b = "install")
          /\ runs'[e].commits # runs[e].commits => a = "commit"
          /\ runs'[e].pushes # runs[e].pushes => a = "push"
          /\ runs'[e].delivered # runs[e].delivered =>
               \/ /\ a = "notify"
                  /\ runs[e].commits = 1 /\ runs[e].pushes = 1
                  /\ runs[e].error = None
                  /\ runs'[e].delivered = <<SuccessResult(runs[e].request)>>
               \/ /\ a = "catch-notify"
                  /\ Len(runs'[e].delivered) = Len(runs[e].delivered) + 1
                  /\ ~runs'[e].delivered[Len(runs'[e].delivered)].success
          /\ (a \in {"catch-notify", "returned"} /\ runs[e].error # None) =>
               /\ runs'[e].commits = runs[e].commits
               /\ runs'[e].pushes = runs[e].pushes
               /\ runs'[e].created = runs[e].created
    ]_vars

\* C29 witness: the commit of a run threw; the run delivered the failure and
\* returned it without a push, a success callback or a worktree deletion
C29_Witness ==
  \E e \in DOMAIN runs :
    /\ runs[e].pc = "returned"
    /\ runs[e].error = "commit failed"
    /\ runs[e].created /\ runs[e].commits = 1
    /\ runs[e].pushes = 0
    /\ ~runs[e].deleted
    /\ Len(runs[e].delivered) = 1
    /\ ~runs[e].delivered[1].success

ClaudeFailedMessage == "Claude execution failed"

\* C30: an agent run without the completion marker is not a failure: a run
\* with success=true goes on to the quality gate whatever `completed` is,
\* and `completed` changes nothing of what execute() does. A run with
\* success=false (non-zero exit, spawn error, timeout) ends the pipeline
\* with the failure 'Claude execution failed', which is delivered to the
\* callback; the quality gate, commit and push are not run.
C30_IncompleteRunIsNotFatal ==
  [][/\ \A e \in {x \in DOMAIN runs : runs[x].pc = "claude" /\ runs'[x].pc # "claude"} :
        \A process \in ProcessRuns, edits \in BOOLEAN :
          LET claudeResult == ClaudeRunnerRun(process)
          IN claudeRun(e, claudeResult, edits) =>
               /\ process.exit \in {"nonzero", "spawn-error", "timeout"} =>
                    ~claudeResult.success
               /\ claudeResult.success =>
                    /\ runs'[e] = [runs[e] EXCEPT !.pc = "gate"]
                    /\ executions' = executions
               /\ ~claudeResult.success =>
                    /\ runs'[e].error = ClaudeFailedMessage
                    /\ runs'[e].pc = IF runs[e].request.callbackUrl # ""
                                     THEN "catch-notify" ELSE "returned"
                    /\ executions'[e].status = "failed"
               /\ \A completed \in BOOLEAN :
                    claudeRun(e, [claudeResult EXCEPT !.completed = completed],
                              edits)
     /\ \A e \in DOMAIN runs \cap DOMAIN runs' :
          runs[e].error = ClaudeFailedMessage =>
            /\ runs'[e].commits = 0
            /\ runs'[e].pushes = 0
            /\ runs'[e].pc \in {"catch-notify", "returned"}
            /\ runs'[e].pc = "returned" =>
                 /\ runs'[e].result =
                      <<FailureResult(runs[e].request, ClaudeFailedMessage)>>
                 /\ runs[e].request.callbackUrl # "" =>
                      runs'[e].delivered = runs'[e].result
    ]_vars

\* C30 witness: the agent run of an execution with a callbackUrl failed; the
\* failure was delivered and returned, and nothing was committed or pushed
C30_Witness ==
  \E e \in DOMAIN runs :
    /\ runs[e].pc = "returned"
    /\ runs[e].request.callbackUrl # ""
    /\ runs[e].error = ClaudeFailedMessage
    /\ runs[e].delivered = <<FailureResult(runs[e].request, ClaudeFailedMessage)>>
    /\ runs[e].result = runs[e].delivered
    /\ runs[e].commits = 0 /\ runs[e].pushes = 0

\* C31: cancel(executionId) of a known execution sets its status to
\* 'cancelled' with completedAt, calls deleteWorktree exactly when a
\* worktreePath is recorded, and is answered ok whatever the removal does;
\* cancel of an unknown id changes no ExecutionState and deletes nothing.
C31_CancelEffect ==
  [][\A executionId \in ExecIds, outcome \in StepOutcomes :
       handleCancel(executionId, outcome) =>
         /\ reply'.code = 200
         /\ IF executionId \in DOMAIN executions
            THEN /\ DOMAIN executions' = DOMAIN executions
                 /\ executions'[executionId].status = "cancelled"
                 /\ executions'[executionId].completedAt # None
                 /\ executions'[executionId].taskId =
                      executions[executionId].taskId
                 /\ executions'[executionId].worktreePath =
                      executions[executionId].worktreePath
                 /\ \A e \in DOMAIN executions \ {executionId} :
                      executions'[e] = executions[e]
                 /\ IF executions[executionId].worktreePath # None
                    THEN /\ executionId \in DOMAIN runs =>
                              runs'[executionId].deleted
                         /\ repo' \in
                              {repo,
                               WorktreeRemove(
                                 repo, executions[executionId].worktreePath)}
                    ELSE runs' = runs /\ repo' = repo
            ELSE executions' = executions /\ runs' = runs /\ repo' = repo
    ]_vars

\* an execution cancelled in the middle of its pipeline, its worktree removed
C31_Witness ==
  /\ reply.op = "cancel"
  /\ \E e \in DOMAIN executions :
       /\ reply.id = e
       /\ executions[e].status = "cancelled"
       /\ executions[e].completedAt = Now
       /\ executions[e].worktreePath # None
       /\ runs[e].pc \in {"install", "prompt", "claude", "gate", "diff"}
       /\ runs[e].deleted
       /\ ~Exists(repo, executions[e].worktreePath)

\* C32: 'cancelled' is terminal: no step of execute() changes the status of
\* a cancelled execution, and a cancelled execution makes no commit, no push
\* and delivers no success=true callback.
C32_CancelledIsTerminal ==
  [][\A e \in DOMAIN runs \cap DOMAIN runs' :
       executions[e].status = "cancelled" =>
         /\ executions'[e].status = "cancelled"
         /\ runs'[e].commits = runs[e].commits
         /\ runs'[e].pushes = runs[e].pushes
         /\ \A i \in 1..Len(runs'[e].delivered) :
              i > Len(runs[e].delivered) => ~runs'[e].delivered[i].success
    ]_vars

\* C33: without a package.json runAll() runs no check command and returns
\* typecheck, tests and lint false with a non-empty errors list; with a
\* manifest the lint step answers lint=true whatever the lint command does,
\* adds nothing to errors, leaves typecheck and tests as they were, and the
\* result is the one the gate of execute() reads.
C33_ManifestAndLint ==
  [][/\ (checker.pc = "access" /\ ~checker.env.packageJson) =>
          /\ checker'.pc = "done"
          /\ checker'.commands = <<>>
          /\ ~checker'.results.typecheck
          /\ ~checker'.results.tests
          /\ ~checker'.results.lint
          /\ checker'.results.errors # <<>>
     /\ checker.pc = "lint" =>
          /\ checker.env.packageJson
          /\ checker'.pc = "done"
          /\ checker'.results.lint
          /\ checker'.results.errors = checker.results.errors
          /\ checker'.results.typecheck = checker.results.typecheck
          /\ checker'.results.tests = checker.results.tests
          /\ checker'.results = runAll(checker.env)
          /\ Len(checker'.results.errors) =
               (IF checker.results.typecheck THEN 0 ELSE 1)
               + (IF checker.results.tests THEN 0 ELSE 1)
     /\ (checker.pc # "idle" /\ checker'.pc = "done") =>
          checker'.results = runAll(checker.env)
    ]_vars

\* runAll() returned in a worktree with a manifest whose lint command exits
\* non-zero while typecheck and tests pass: lint=true and no error
C33_Witness ==
  /\ checker.pc = "done"
  /\ checker.env.packageJson
  /\ checker.env.lint = "nonzero"
  /\ checker.results =
       [typecheck |-> TRUE, tests |-> TRUE, lint |-> TRUE, errors |-> <<>>]
  /\ checker.commands = <<"npm run typecheck", "npm test", "npm run lint">>

RECURSIVE ExpectedDelays(_, _)
\* the first n delays the claim states: initialDelay, then each time
\* min(previous * backoffFactor, maxDelay)
ExpectedDelays(options, n) ==
  IF n = 0 THEN <<>>
  ELSE IF n = 1 THEN <<options.initialDelay>>
  ELSE LET before == ExpectedDelays(options, n - 1)
           scaled == before[n - 1] * options.backoffFactor
       IN Append(before, IF scaled < options.maxDelay THEN scaled
                         ELSE options.maxDelay)

\* the call has left retryWithBackoff
RetryOver == retry.pc \in {"returned", "thrown"}

\* C34: retryWithBackoff with maxAttempts >= 1 terminates: every step is a
\* further call of fn or the end of a sleep, fn is called at most maxAttempts
\* times, the first success ends the call with its value, the sleeps are
\* initialDelay and then min(previous * backoffFactor, maxDelay), one between
\* two consecutive attempts and none after the last, and when every attempt
\* failed the error of the last attempt is thrown.
C34_RetryTerminates ==
  /\ [][(retry.pc # "idle" /\ retry.options.maxAttempts >= 1) =>
          /\ ~RetryOver
          /\ retry'.calls + retry'.attempt = retry.calls + retry.attempt + 1
          /\ retry'.calls <= retry.options.maxAttempts
          /\ retry'.attempt <= retry.options.maxAttempts
          /\ retry'.thrown \in {retry.thrown} \cup
                                {Append(retry.thrown, e) : e \in {"e1", "e2"}}
          /\ retry'.pc = "returned" <=>
               (retry.pc = "call" /\ retry'.thrown = retry.thrown)
          /\ Len(retry'.thrown) =
               IF retry'.pc = "returned" THEN retry'.calls - 1
               ELSE retry'.calls
          /\ retry'.sleeps =
               ExpectedDelays(retry.options,
                              IF retry'.pc \in {"returned", "thrown"}
                              THEN retry'.calls - 1
                              ELSE retry'.calls)
          /\ retry'.pc = "returned" => retry'.result = "value"
          /\ retry'.pc = "thrown" =>
               /\ retry'.calls = retry.options.maxAttempts
               /\ retry'.result = retry'.thrown[Len(retry'.thrown)]
       ]_vars
  /\ (retry.pc # "idle") ~> RetryOver

\* three attempts failed with different errors, the last one is thrown, and
\* the second sleep was capped by maxDelay
C34_Witness ==
  /\ retry.pc = "thrown"
  /\ retry.options.maxAttempts = 3
  /\ retry.options.initialDelay = 1
  /\ retry.options.backoffFactor = 2
  /\ retry.thrown = <<"e1", "e1", "e2">>
  /\ retry.result = "e2"
  /\ retry.sleeps = <<1, 2>>

\* C35: a failed callback delivery (a thrown fetch or a response that is not
\* ok) is logged only: the result is handed to fetch once, nothing is thrown
\* out of notifyCallback, and execute() goes on exactly as after a delivery
\* that succeeded: same returned ExecutionResult, same in-memory status, and
\* on the success path the worktree is deleted afterwards just the same.
C35_CallbackFailureIsLoggedOnly ==
  [][\A e \in {x \in DOMAIN runs \cap DOMAIN runs' :
                 /\ runs[x].pc \in {"notify", "catch-notify", "cleanup"}
                 /\ runs'[x].pc # runs[x].pc} :
       /\ \A outcome \in FetchOutcomes \ {"ok"} :
            /\ notifySuccess(e, outcome) =>
                 /\ runs'[e].logged = CallbackLog(outcome)
                 /\ runs'[e].logged # None
                 /\ runs'[e].delivered =
                      Append(runs[e].delivered, SuccessResult(runs[e].request))
                 /\ [runs'[e] EXCEPT !.logged = None, !.delivered = <<>>] =
                      [runs[e] EXCEPT !.pc = "cleanup", !.delivered = <<>>]
                 /\ executions' = executions
                 /\ repo' = repo
            /\ notifyFailure(e, outcome) =>
                 /\ runs'[e].logged = CallbackLog(outcome)
                 /\ runs'[e].logged # None
                 /\ Len(runs'[e].delivered) = Len(runs[e].delivered) + 1
                 /\ runs'[e].pc = "returned"
                 /\ runs'[e].result =
                      <<FailureResult(runs[e].request, runs[e].error)>>
                 /\ runs'[e].deleted = runs[e].deleted
                 /\ executions' = executions
                 /\ repo' = repo
       /\ (runs[e].pc = "cleanup" /\ runs[e].logged # None) =>
            /\ runs'[e].pc = "returned"
            /\ runs'[e].result = <<SuccessResult(runs[e].request)>>
            /\ runs'[e].deleted
            /\ executions'[e].status = "completed"
    ]_vars

\* the fetch of the success callback threw; the call went on, deleted the
\* worktree and returned the success result with status 'completed'
C35_Witness ==
  \E e \in DOMAIN runs :
    /\ runs[e].pc = "returned"
    /\ runs[e].logged = "Failed to notify callback:"
    /\ runs[e].delivered = <<SuccessResult(runs[e].request)>>
    /\ runs[e].result = <<SuccessResult(runs[e].request)>>
    /\ runs[e].deleted
    /\ executions[e].status = "completed"

\* the operations of the outbound calls a callback has made, in order
Ops(calls) == [i \in 1..Len(calls) |-> calls[i].op]

\* the callback handler makes the call op in this step
Calls(op) ==
  /\ callback.pc \notin {"idle", "done"}
  /\ Len(callback'.calls) = Len(callback.calls) + 1
  /\ callback'.calls[Len(callback'.calls)].op = op

\* C36: for a success=true callback, complete is sent to the store only
\* after the pull request was created, and carries that pull request's URL
\* as prUrl; when the task is missing from the ledger, or when every attempt
\* to create the pull request failed, fail is sent instead and complete is
\* never sent for that callback. So every entry the coordinator sets to
\* passes=true has a prUrl.
C36_PullRequestBeforeComplete ==
  [][/\ (callback.pc = "get-prd" /\ callback' # callback) =>
          callback'.pc = IF callback.result.taskId \in DOMAIN Entries
                         THEN "create-pr" ELSE "catch"
     /\ \A github \in GitHubRuns :
          callbackCreatePR(github) =>
            /\ callback'.pc = IF \E i \in 1..GitHubAttempts : github[i] = "created"
                              THEN "complete" ELSE "catch"
            /\ callback'.pc = "complete" =>
                 callback'.prUrl = PullRequestUrl(callback.branchName)
     /\ Calls("complete") =>
          /\ callback.result.success
          /\ Ops(callback.calls) = <<"get-prd", "create-pr">>
          /\ callback.calls[2].status = 201
          /\ callback.prUrl # None
          /\ callback'.calls[3].arg = callback.prUrl
          /\ callback'.calls[3].status = 200
          /\ Entries'[callback.result.taskId].passes
          /\ Entries'[callback.result.taskId].prUrl = callback.prUrl
     /\ (callback.pc = "catch" /\ callback' # callback) =>
          /\ Calls("fail")
          /\ callback'.pc = "respond"
     /\ (callback.pc = "respond" /\ callback.result.success) =>
          Ops(callback.calls) \in
            { <<"get-prd", "fail">>, <<"get-prd", "create-pr", "fail">>,
              <<"get-prd", "create-pr", "complete", "completeTask">> }
     /\ \A taskId \in DOMAIN Entries' :
          Entries'[taskId].passes => Entries'[taskId].prUrl # None
    ]_vars

\* a success callback for T1 was handled: the pull request was created, then
\* complete was sent with its URL, and the entry has passes=true and the URL
C36_Witness ==
  /\ callback.pc = "done"
  /\ callback.result.taskId = "T1"
  /\ Ops(callback.calls) = <<"get-prd", "create-pr", "complete", "completeTask">>
  /\ callback.calls[3].arg = PullRequestUrl("task/t1")
  /\ Entries["T1"].passes
  /\ Entries["T1"].prUrl = PullRequestUrl("task/t1")

\* C37: a callback for a taskId the store does not know is not absorbed: the
\* /callbacks/execution handler answers it with a status that is not 2xx,
\* for a success=true and for a success=false result alike.
C37_UnknownTaskIsRejected ==
  [][(callback.pc = "respond" /\ callback'.pc = "done"
        /\ callback.result.taskId \notin DOMAIN Entries) =>
          callback'.status >= 400
    ]_vars

\* C38: for every callback it handles the coordinator pushes a final status
\* to the backlog: completeTask with the PR URL when complete was recorded,
\* and failTask whenever fail was recorded in the store, be it for a failed
\* execution or for a pull request that could not be created.
C38_BacklogGetsFinalStatus ==
  [][(callback.pc = "respond" /\ callback'.pc = "done") =>
       /\ (\E i \in 1..Len(callback.calls) :
             callback.calls[i].op = "complete" /\ callback.calls[i].status = 200)
          => \E j \in 1..Len(callback.calls) :
               /\ callback.calls[j].op = "completeTask"
               /\ callback.calls[j].arg = callback.prUrl
       /\ (\E i \in 1..Len(callback.calls) :
             callback.calls[i].op = "fail" /\ callback.calls[i].status = 200)
          => \E j \in 1..Len(callback.calls) : callback.calls[j].op = "failTask"
    ]_vars

RECURSIVE Concat(_)
\* the text of the progress log: the texts appended to it, one after another
Concat(texts) ==
  IF texts = <<>> THEN "" ELSE texts[1] \o Concat(Tail(texts))

\* the text a is a prefix of the text b
IsPrefix(a, b) == Len(a) <= Len(b) /\ SubSeq(b, 1, Len(a)) = a

LastChars(text, n) ==
  IF Len(text) > n THEN SubSeq(text, Len(text) - n + 1, Len(text)) ELSE text

\* C40: learnings carry forward: once complete() has appended learnings to
\* the progress log of the store, every prompt that is rendered contains the
\* last min(length, 2000) characters of that log.
C40_LearningsCarryForward ==
  [][\A e \in DOMAIN runs :
       (/\ runs[e].pc = "prompt"
        /\ Len(getProgress(storage)) > 0
        /\ \E progressFile \in ProgressFiles :
              generatePromptFile(e, "ok", progressFile)) =>
         Contains(runs'[e].prompt,
                  LastChars(Concat(getProgress(storage)), ContextLimit))
    ]_vars
====
